---- MODULE Spec2Model ----
(***************************************************************************)
(* Verification model of the vocal-remover backend: the in-memory job      *)
(* registry (JobManager), the background pipeline (processor.py), the      *)
(* YouTube acquirer, the remix endpoint, the bundle importer, the range    *)
(* streaming handlers and the rate limiter.                                *)
(***************************************************************************)
EXTENDS Integers, FiniteSets, Sequences, TLC

\* ------------------------------------------------------------------ bounds
MaxJobs == 2
MaxImports == 2
MaxConflicts == 1
MaxSongs == 2
MaxMixPosts == 3
MaxFileSize == 4
MaxOffset == 5
MaxCalls == 14
MaxAdvances == 4
TicksPerSecond == 4
SoloJobs == 1
MaxRegistry == 2
MaxStamp == 1
MaxTitled == 3
MaxPending == 2
MaxDownloads == 2
IdLimit == IF MaxJobs > MaxImports THEN MaxJobs ELSE MaxImports
JobIds == 1..IdLimit
ConflictIds == 1..MaxConflicts
TaskIds == 1..MaxDownloads
\* the ids whose worker, results directory and upload the model keeps
StoreIds == 1..(IF IdLimit > MaxTitled THEN IdLimit ELSE MaxTitled)

\* --------------------------------------------------------- configuration
max_concurrent_jobs == 1
max_video_duration == 600
rate_limit_requests == 12
rate_limit_window_seconds == 3600

\* ------------------------------------------------------------- job model
PENDING == "pending"
DOWNLOADING == "downloading"
SEPARATING == "separating"
MERGING == "merging"
COMPLETED == "completed"
FAILED == "failed"

JobStatus == {PENDING, DOWNLOADING, SEPARATING, MERGING, COMPLETED, FAILED}
NonTerminal == {PENDING, DOWNLOADING, SEPARATING, MERGING}
NoStatus == "None"

YOUTUBE == "youtube"
UPLOAD == "upload"

NoTitle == "None"
Titles == {"T"}

Stems == {"drums", "bass", "other", "vocals"}

\* None of an optional text field
NoValue == "None"

\* Job(...) with the defaults of the model class: status PENDING, progress 0.
\* track_paths is {} for None and {S} for a TrackPaths object with the stems S set
Job(source_type, source_title) ==
    [status |-> PENDING, progress |-> 0, source_type |-> source_type,
     source_title |-> source_title, track_paths |-> {},
     original_video_path |-> FALSE, result_key |-> FALSE, error_message |-> NoValue]

VARIABLES
    jobs,              \* JobManager._jobs : id -> Job
    processing_count,  \* JobManager._processing_count
    nextId,            \* next unused job id (uuid4 is fresh every time)
    worker,            \* pipeline thread of each job
    results,           \* files under results_dir/<job_id>/
    uploads,           \* uploads_dir/<job_id>/input.<ext> exists
    uploading,         \* POST /jobs/upload requests suspended in file.read()
    deleting,          \* DELETE handler between its two storage/registry calls
    deleted,           \* ids for which DELETE /jobs/{id} has returned 204
    pending_imports,   \* Importer._pending_imports : conflict_id -> staged song
    nextConflict,      \* next unused conflict id (uuid4)
    reply,             \* request and response of the latest import / resolve call
    mix_tasks,         \* _mix_tasks of api/v1/jobs.py : task_key -> entry
    mix_threads,       \* run_mix threads of each task_key, by position
    mix_reply,         \* request and response of the latest POST /jobs/{id}/mix
    stream,            \* request and response of the latest streaming call
    redis,             \* the rate-limit key of one client IP: {} or {entry}
    now,               \* the clock, in ticks
    rl,                \* the calls of check_rate_limit so far and the latest answer
    race,              \* check_rate_limit calls in progress in two threads, and their answers
    xfer,              \* a bundle on its way from one instance to another
    upload,            \* request and response of the latest POST /jobs/upload
    mix_status,        \* request and response of the latest GET /jobs/{id}/mix/{mix_id}
    registry,          \* JobManager._jobs with every field of Job, in insertion order
    call,              \* the latest JobManager method call on registry and its result
    download_tasks,    \* api/v1/youtube.py download_tasks: task_id -> task dict
    dl_thread,         \* the position of each _download_task thread
    dl_reply           \* the latest answer of the download proxy, and the payloads served

importvars == <<pending_imports, nextConflict, reply>>
mixvars == <<mix_tasks, mix_threads, mix_reply, mix_status>>
httpvars == <<stream, upload>>
ratevars == <<redis, now, rl, race>>
bundlevars == <<xfer>>
regvars == <<registry, call>>
proxyvars == <<download_tasks, dl_thread, dl_reply>>
aux == <<importvars, mixvars, httpvars, ratevars, bundlevars, regvars, proxyvars>>

vars == <<jobs, processing_count, nextId, worker, results, uploads, uploading, deleting, deleted, aux>>

\* ------------------------------------------------------------ JobManager
create_job(js, id, job) == [k \in DOMAIN js \cup {id} |-> IF k = id THEN job ELSE js[k]]

update_progress(js, id, progress, status) ==
    IF id \in DOMAIN js
    THEN [js EXCEPT ![id].progress = progress,
                    ![id].status = IF status = NoStatus THEN @ ELSE status]
    ELSE js

complete_job(js, id) ==
    IF id \in DOMAIN js
    THEN [js EXCEPT ![id].status = COMPLETED, ![id].progress = 100, ![id].result_key = TRUE]
    ELSE js

\* a fail_job that records the text and leaves the status alone
fail_job_keeps_status(js, id, error_message) ==
    IF id \in DOMAIN js THEN [js EXCEPT ![id].error_message = error_message] ELSE js

fail_job(js, id, error_message) ==
    IF id \in DOMAIN js
    THEN [js EXCEPT ![id].status = FAILED, ![id].error_message = error_message]
    ELSE js

delete_job(js, id) == [k \in DOMAIN js \ {id} |-> js[k]]

can_accept_job == processing_count < max_concurrent_jobs

increment_processing(n) == n + 1

\* a decrement that is skipped
decrement_processing_skipped(n) == n

decrement_processing(n) == IF n > 0 THEN n - 1 ELSE n

\* ---------------------------------------------------------------- worker
Durations == {max_video_duration, max_video_duration + 1}

\* str(e) of the exceptions the stages raise: every raise of youtube.py and
\* merger.py and the RuntimeError of the upload path formats a fixed text followed
\* by its detail
ErrorTexts == {"e"}
HookPercents == {0, 50, 100}
ChunkPercents == {50, 100}

NoWorker == [pc |-> "none", kind |-> "none", err |-> FALSE, inner |-> -1,
             probed |-> {}, fetchers |-> {}, tmp |-> 0]

\* -------------------------------------------------------------- importer
BundleTitles == Titles \cup {"U"}
BundleStems == {Stems, {"vocals"}}

\* a song of a bundle: metadata.json's source_title, the stem files, video.mp4
\* (the bundles tried: all four stems with the video, one stem without)
Songs == {[title |-> t, stems |-> st, video |-> (st = Stems)] : t \in BundleTitles, st \in BundleStems}

NoReply == [op |-> "none", title |-> NoTitle, cid |-> 0, action |-> "none", code |-> 0,
            imported |-> {}, conflicts |-> {}, errors |-> FALSE, job |-> {},
            bundle |-> << >>, error_count |-> 0, detail |-> "none"]

\* the inner archives of a multi-song bundle: a readable song (whose files may
\* fail to be written), an archive that is not a zip, one without metadata.json,
\* one whose metadata.json is not JSON
InnerKinds == {"song", "write_fails", "unreadable", "no_metadata", "bad_metadata"}
InnerZips ==
    {[kind |-> "song", song |-> x] : x \in {y \in Songs : y.stems = Stems}}
    \cup {[kind |-> k, song |-> CHOOSE y \in Songs : y.stems = Stems] : k \in InnerKinds \ {"song"}}
Bundles == UNION {[1..n -> InnerZips] : n \in 1..MaxSongs}

\* ------------------------------------------------------------ remix engine
MixSettingsSet == {"m1", "m2"}
MixPercents == {50}

\* mixer.get_cache_key(job_id, settings): a deterministic key on (job, settings)
get_cache_key(job_id, settings) == ToString(job_id) \o "-" \o settings

MixIds == {get_cache_key(j, m) : j \in JobIds, m \in MixSettingsSet}

\* task_key = f"{job_id}:{mix_id}"
task_key(job_id, mix_id) == <<job_id, mix_id>>

TaskKeys == {task_key(j, get_cache_key(j, m)) : j \in JobIds, m \in MixSettingsSet}

\* f"mix_{mix_id}.{ext}" under the job's results directory
mix_file(mix_id) == "mix_" \o mix_id

NoThreads == [started |-> 0, mixing |-> 0, written |-> 0]

NoMixReply == [n |-> 0, job |-> 0, settings |-> "none", code |-> 0, mix_id |-> "none",
               status |-> "none", progress |-> 0, cached |-> FALSE]

NoMixStatus == [job |-> 0, mix_id |-> "none", code |-> 0,
                status |-> "none", progress |-> 0, cached |-> FALSE]

\* -------------------------------------------------------- range streaming
\* the Range header: absent, `bytes=<first>-<last>` with <last> optional
\* (last is {} or {b}), or a value the pattern bytes=(\d+)-(\d*) does not match
RangeHeaders ==
    {[kind |-> "absent", first |-> 0, last |-> {}], [kind |-> "other", first |-> 0, last |-> {}]}
    \cup {[kind |-> "bytes", first |-> a, last |-> b] :
             a \in 0..MaxOffset, b \in {{}} \cup {{e} : e \in 0..MaxOffset}}

NoStream == [handler |-> "none", method |-> "none", file_size |-> 0,
             range |-> [kind |-> "absent", first |-> 0, last |-> {}],
             status |-> 0, start |-> 0, end |-> 0, content_length |-> 0, body |-> 0,
             accept_ranges |-> FALSE, job |-> 0, code |-> "none"]

\* ------------------------------------------------------------ rate limiter
WindowTicks == rate_limit_window_seconds * TicksPerSecond
ClockSteps == {1, WindowTicks - 2}

\* the threads calling check_rate_limit for one client IP at the same time
Callers == {"a", "b"}

NoRace == [pc |-> [c \in Callers |-> "idle"], data |-> [c \in Callers |-> {}],
           calls |-> 0, allowed |-> 0, denied |-> 0]

NoCalls == [calls |-> 0, advances |-> 0, start |-> -1, nth |-> 0, at |-> 0,
            allowed |-> FALSE, remaining |-> 0]

\* ------------------------------------------------------------- uploads
max_file_size_mb == 500

\* file names, as the characters validate_file_extension looks at, and the sizes
\* in MB of the bodies read
FileNames ==
    {<< >>, <<"a">>,
     <<"a", ".", "m", "p", "4">>, <<"a", ".", "M", "P", "4">>, <<"a", ".", "w", "e", "b", "m">>,
     <<"a", ".", "t", "x", "t">>, <<"a", ".", "m", "p", "4", ".", "t", "x", "t">>}
FileSizes == {1, max_file_size_mb, max_file_size_mb + 1}

ALLOWED_EXTENSIONS ==
    {<<".", "m", "p", "4">>, <<".", "m", "o", "v">>, <<".", "a", "v", "i">>,
     <<".", "m", "k", "v">>, <<".", "w", "e", "b", "m">>}

NoUpload == [filename |-> << >>, size |-> 0, reading |-> FALSE,
             status |-> 0, code |-> "none", job |-> 0]

\* ------------------------------------------------------- bundle transfer
\* Optional values: None is {} and a value v is {v}
None == {}

\* metadata.get('sample_rate', 44100) and `job.sample_rate or 44100`
default_sample_rate == 44100

\* one key of metadata.json: absent, or present with null or a value
Absent == [present |-> FALSE, value |-> None]
Present(v) == [present |-> TRUE, value |-> v]
MetaValues(S) == {Absent, Present(None)} \cup {Present({v}) : v \in S}

\* the bytes of a file, and the single-song bundles an instance may be handed:
\* the stem entries, video.mp4 and metadata.json
FileBytes == {"a", "b"}
ZipNames == {{t \o ".wav" : t \in st} \cup v : st \in BundleStems \cup {{}}, v \in {{}, {"video.mp4"}}}
Zips ==
    {[entries |-> [n \in names |-> b],
      metadata |-> [source_title |-> t, original_duration |-> d, sample_rate |-> r]] :
        names \in ZipNames, b \in FileBytes,
        t \in MetaValues(Titles), d \in MetaValues({215}),
        r \in MetaValues({default_sample_rate, 48000})}

NoBundle == [stage |-> "none", src |-> {}, zip |-> {}, dst |-> {}]

\* the stage text complete_job writes (two CJK characters meaning "done")
StageDone == "done"

NoCall == [op |-> "none", id |-> 0, progress |-> 0, stage |-> NoValue, status |-> NoStatus,
           text |-> NoValue, completed |-> << >>, processing |-> << >>]

NoTasks == [op |-> "none", task |-> 0, code |-> 0, status |-> "none", payload |-> FALSE, served |-> << >>]

Init ==
    /\ jobs = << >>
    /\ processing_count = 0
    /\ nextId = 1
    /\ worker = [j \in StoreIds |-> NoWorker]
    /\ results = [j \in StoreIds |-> {}]
    /\ uploads = [j \in StoreIds |-> FALSE]
    /\ uploading = 0
    /\ deleting = 0
    /\ deleted = {}
    /\ pending_imports = << >>
    /\ nextConflict = 1
    /\ reply = NoReply
    /\ mix_tasks = << >>
    /\ mix_threads = [k \in TaskKeys |-> NoThreads]
    /\ mix_reply = NoMixReply
    /\ mix_status = NoMixStatus
    /\ stream = NoStream
    /\ redis = {}
    /\ now = 0
    /\ rl = NoCalls
    /\ race = NoRace
    /\ xfer = NoBundle
    /\ upload = NoUpload
    /\ registry = << >>
    /\ call = NoCall
    /\ download_tasks = << >>
    /\ dl_thread = [t \in TaskIds |-> "none"]
    /\ dl_reply = NoTasks

\* ------------------------------------- JobManager on whole Job records
\* Job with the fields the JobManager methods read and write
WholeJob(id, created_at) ==
    [id |-> id, status |-> PENDING, progress |-> 0, current_stage |-> NoValue,
     error_message |-> NoValue, result_key |-> NoValue, created_at |-> created_at]

\* the position of a key in the dict, 0 when it is absent (self._jobs.get)
jobs_get(reg, id) ==
    IF \E i \in 1..Len(reg) : reg[i].id = id
    THEN CHOOSE i \in 1..Len(reg) : reg[i].id = id
    ELSE 0

\* JobManager.create_job: self._jobs[job.id] = job
JobManager_create_job(reg, job) ==
    IF jobs_get(reg, job.id) = 0 THEN Append(reg, job)
    ELSE [reg EXCEPT ![jobs_get(reg, job.id)] = job]

\* JobManager.update_progress(job_id, progress, stage, status=None)
JobManager_update_progress(reg, id, progress, stage, status) ==
    IF jobs_get(reg, id) = 0 THEN reg
    ELSE [reg EXCEPT ![jobs_get(reg, id)] =
             [@ EXCEPT !.progress = progress, !.current_stage = stage,
                       !.status = IF status = NoStatus THEN @ ELSE status]]

\* a complete_job that forgets the path
JobManager_complete_job_no_key(reg, id, result_path) ==
    IF jobs_get(reg, id) = 0 THEN reg
    ELSE [reg EXCEPT ![jobs_get(reg, id)] =
             [@ EXCEPT !.status = COMPLETED, !.progress = 100, !.current_stage = StageDone]]

\* JobManager.complete_job(job_id, result_path)
JobManager_complete_job(reg, id, result_path) ==
    IF jobs_get(reg, id) = 0 THEN reg
    ELSE [reg EXCEPT ![jobs_get(reg, id)] =
             [@ EXCEPT !.status = COMPLETED, !.progress = 100, !.current_stage = StageDone,
                       !.result_key = result_path]]

\* JobManager.fail_job(job_id, error_message)
JobManager_fail_job(reg, id, error_message) ==
    IF jobs_get(reg, id) = 0 THEN reg
    ELSE [reg EXCEPT ![jobs_get(reg, id)] =
             [@ EXCEPT !.status = FAILED, !.error_message = error_message]]

\* a sort that leaves the list as it is
sort_created_at_none(seq) == seq

\* list.sort(key=lambda j: j.created_at, reverse=True): stable, newest first
RECURSIVE sort_created_at_reverse(_)
sort_created_at_reverse(seq) ==
    IF seq = << >> THEN << >>
    ELSE LET head == sort_created_at_reverse(SubSeq(seq, 1, Len(seq) - 1))
             x == seq[Len(seq)]
             k == Cardinality({i \in 1..Len(head) : head[i].created_at >= x.created_at})
         IN  SubSeq(head, 1, k) \o <<x>> \o SubSeq(head, k + 1, Len(head))

\* the loop of get_all_jobs over self._jobs.values()
is_completed(job) == job.status = COMPLETED
is_processing(job) == job.status # COMPLETED /\ job.status \notin {FAILED}

\* JobManager.get_all_jobs: (completed, processing)
get_all_jobs(reg) ==
    [completed |-> sort_created_at_reverse(SelectSeq(reg, is_completed)),
     processing |-> sort_created_at_reverse(SelectSeq(reg, is_processing))]

StageTexts == {"s"}
ProgressArgs == {50}
StatusArgs == {NoStatus, SEPARATING}
ResultPaths == {"p"}

RegistryBase ==
    UNCHANGED <<jobs, processing_count, nextId, worker, results, uploads, uploading,
                deleting, deleted, importvars, mixvars, httpvars, ratevars, bundlevars, proxyvars>>

\* job_manager.create_job(Job(...)): created_at is the clock of the thread that
\* built the Job, read before the lock is taken
RegistryCreate(created_at, limit) ==
    /\ Len(registry) < limit
    /\ registry' = JobManager_create_job(registry, WholeJob(Len(registry) + 1, created_at))
    /\ call' = [NoCall EXCEPT !.op = "create_job", !.id = Len(registry) + 1]
    /\ RegistryBase

RegistryUpdateProgress(id, progress, stage, status) ==
    /\ registry' = JobManager_update_progress(registry, id, progress, stage, status)
    /\ call' = [NoCall EXCEPT !.op = "update_progress", !.id = id, !.progress = progress,
                              !.stage = stage, !.status = status]
    /\ RegistryBase

RegistryComplete(id, result_path) ==
    /\ registry' = JobManager_complete_job(registry, id, result_path)
    /\ call' = [NoCall EXCEPT !.op = "complete_job", !.id = id, !.text = result_path]
    /\ RegistryBase

RegistryFail(id, error_message) ==
    /\ registry' = JobManager_fail_job(registry, id, error_message)
    /\ call' = [NoCall EXCEPT !.op = "fail_job", !.id = id, !.text = error_message]
    /\ RegistryBase

RegistryList ==
    /\ call' = [NoCall EXCEPT !.op = "get_all_jobs",
                              !.completed = get_all_jobs(registry).completed,
                              !.processing = get_all_jobs(registry).processing]
    /\ UNCHANGED registry
    /\ RegistryBase

\* process_job_async: a daemon thread running _process_job(job)
process_job_async(id, kind) == [worker EXCEPT ![id] = [NoWorker EXCEPT !.pc = "queued", !.kind = kind]]

\* ------------------------------------------------------------ HTTP layer
\* POST /jobs: no await between can_accept_job() and process_job_async()
\* (limit bounds the submissions of a run)
CreateJob(limit) ==
    /\ deleting = 0
    /\ nextId + uploading <= limit
    /\ can_accept_job
    /\ jobs' = create_job(jobs, nextId, Job(YOUTUBE, NoTitle))
    /\ worker' = process_job_async(nextId, YOUTUBE)
    /\ nextId' = nextId + 1
    /\ UNCHANGED <<processing_count, results, uploads, uploading, deleting, deleted, aux>>

\* POST /jobs/upload, up to `await file.read()`: admission and validation
UploadAdmit(limit) ==
    /\ deleting = 0
    /\ nextId + uploading <= limit
    /\ can_accept_job
    /\ uploading' = uploading + 1
    /\ UNCHANGED <<jobs, processing_count, nextId, worker, results, uploads, deleting, deleted, aux>>

\* POST /jobs/upload, after the read: save_upload, create_job, process_job_async
UploadCreate ==
    /\ deleting = 0
    /\ uploading > 0
    /\ \E t \in Titles :
         jobs' = create_job(jobs, nextId, Job(UPLOAD, t))
    /\ uploads' = [uploads EXCEPT ![nextId] = TRUE]
    /\ worker' = process_job_async(nextId, UPLOAD)
    /\ nextId' = nextId + 1
    /\ uploading' = uploading - 1
    /\ UNCHANGED <<processing_count, results, deleting, deleted, aux>>

\* storage.delete_job_files(job_id): the job's results and uploads directories go
delete_job_files(id) ==
    /\ results' = [results EXCEPT ![id] = {}]
    /\ uploads' = [uploads EXCEPT ![id] = FALSE]

\* DELETE /jobs/{id}, first half: get_job found the job, files are removed
DeleteJobFiles(j) ==
    /\ deleting = 0
    /\ j \in DOMAIN jobs
    /\ delete_job_files(j)
    /\ deleting' = j
    /\ UNCHANGED <<jobs, processing_count, nextId, worker, uploading, deleted, aux>>

\* DELETE /jobs/{id}, second half: job_manager.delete_job, then 204
DeleteJobEntry(j) ==
    /\ deleting = j
    /\ jobs' = delete_job(jobs, j)
    /\ deleting' = 0
    /\ deleted' = deleted \cup {j}
    /\ UNCHANGED <<processing_count, nextId, worker, results, uploads, uploading, aux>>

\* ------------------------------------------------------ pipeline helpers
download_progress(p) == p \div 5

separation_progress(kind, p) == IF kind = YOUTUBE THEN 30 + (2 * p) \div 5 ELSE 20 + p \div 2

merge_progress(p) == 70 + p \div 4

At(j, pc) == worker[j].pc = pc

Goto(j, pc) == worker' = [worker EXCEPT ![j].pc = pc]

\* an exception leaves the stage: the finally block of the stage function runs next
Raise(j) == worker' = [worker EXCEPT ![j].pc = "cleanup", ![j].err = TRUE]

RegistryOnly == UNCHANGED <<processing_count, nextId, results, uploads, uploading, deleting, deleted, aux>>

WorkerOnly == UNCHANGED <<jobs, processing_count, nextId, results, uploads, uploading, deleting, deleted, aux>>

\* _process_job: increment_processing, then dispatch on source_type
WorkerStart(j) ==
    /\ At(j, "queued")
    /\ processing_count' = increment_processing(processing_count)
    /\ Goto(j, "begin")
    /\ UNCHANGED <<jobs, nextId, results, uploads, uploading, deleting, deleted, aux>>

\* the temp directories on disk, by name: each was made by the worker holding
\* it in temp_dir (0 is None) and is removed by that worker only
TempDirs == {worker[j].tmp : j \in JobIds} \ {0}

\* a mkdtemp that returns one fixed path, whether or not it exists
mkdtemp_fixed == CHOOSE n \in JobIds : \A m \in JobIds : n <= m

\* tempfile.mkdtemp(): creates a directory under a name that does not exist
\* (names are interchangeable, the least free one stands for any of them)
mkdtemp == CHOOSE n \in JobIds : n \notin TempDirs /\ \A m \in JobIds \ TempDirs : n <= m

\* temp_dir = tempfile.mkdtemp(); update_progress(0, ..., DOWNLOADING)
StageBegin(j) ==
    /\ At(j, "begin")
    /\ jobs' = update_progress(jobs, j, 0, DOWNLOADING)
    /\ worker' = [worker EXCEPT ![j].tmp = mkdtemp,
                                ![j].pc = IF worker[j].kind = YOUTUBE THEN "dl_info" ELSE "up_check"]
    /\ RegistryOnly

\* ------------------------------------- YouTubeDownloader.download (acquirer)
\* `if duration > self.max_duration: raise ValueError(...)`
duration_check_raises(d) == d > max_video_duration

\* the raise above sits inside `try:`; `except Exception` logs a warning and goes on
probe_exception_caught == TRUE

after_probe(r) ==
    IF (\E d \in r : duration_check_raises(d)) /\ ~probe_exception_caught
    THEN "raise" ELSE "dl_ytdlp"

\* progress_callback(0, ...); get_video_info(url) fails or reports a duration
DlInfo(j) ==
    /\ At(j, "dl_info")
    /\ jobs' = update_progress(jobs, j, download_progress(0), NoStatus)
    /\ \E r \in {{}} \cup {{d} : d \in Durations} :
         worker' = [worker EXCEPT ![j].probed = r,
                                  ![j].pc = IF after_probe(r) = "raise" THEN "cleanup" ELSE after_probe(r),
                                  ![j].err = (after_probe(r) = "raise")]
    /\ RegistryOnly

\* _download_with_ytdlp: progress_callback(5, ...) and the fetcher starts
YtdlpStart(j) ==
    /\ At(j, "dl_ytdlp")
    /\ jobs' = update_progress(jobs, j, download_progress(5), NoStatus)
    /\ worker' = [worker EXCEPT ![j].fetchers = @ \cup {"ytdlp"}, ![j].pc = "ytdlp_run"]
    /\ RegistryOnly

\* progress_hook, status 'downloading': percent = int(downloaded / total * 100)
YtdlpHook(j) ==
    /\ At(j, "ytdlp_run")
    /\ \E p \in HookPercents : jobs' = update_progress(jobs, j, download_progress(p), NoStatus)
    /\ UNCHANGED worker
    /\ RegistryOnly

\* progress_hook, status 'finished': progress_callback(95, ...)
YtdlpFinished(j) ==
    /\ At(j, "ytdlp_run")
    /\ jobs' = update_progress(jobs, j, download_progress(95), NoStatus)
    /\ UNCHANGED worker
    /\ RegistryOnly

\* the file is found: progress_callback(100, ...) and download returns its path
YtdlpDone(j) ==
    /\ At(j, "ytdlp_run")
    /\ jobs' = update_progress(jobs, j, download_progress(100), NoStatus)
    /\ worker' = [worker EXCEPT ![j].pc = "info2", ![j].probed = {}, ![j].fetchers = {}]
    /\ RegistryOnly

\* yt-dlp raises: `except Exception` in download, progress_callback(5, ...)
YtdlpFail(j) ==
    /\ At(j, "ytdlp_run")
    /\ jobs' = update_progress(jobs, j, download_progress(5), NoStatus)
    /\ Goto(j, "dl_cobalt")
    /\ RegistryOnly

\* _download_with_cobalt: progress_callback(5, ...), then the API request
CobaltStart(j) ==
    /\ At(j, "dl_cobalt")
    /\ jobs' = update_progress(jobs, j, download_progress(5), NoStatus)
    /\ worker' = [worker EXCEPT ![j].fetchers = @ \cup {"cobalt"}, ![j].pc = "cobalt_api"]
    /\ RegistryOnly

\* the API answered with a download URL: progress_callback(10, ...)
CobaltApiOk(j) ==
    /\ At(j, "cobalt_api")
    /\ jobs' = update_progress(jobs, j, download_progress(10), NoStatus)
    /\ worker' = [worker EXCEPT ![j].inner = 0, ![j].pc = "cobalt_run"]
    /\ RegistryOnly

\* a chunk is written: percent = int(downloaded / total_size * 90) + 5
CobaltChunk(j) ==
    /\ At(j, "cobalt_run")
    /\ \E f \in ChunkPercents :
         /\ f >= worker[j].inner
         /\ jobs' = update_progress(jobs, j, download_progress((f * 90) \div 100 + 5), NoStatus)
         /\ worker' = [worker EXCEPT ![j].inner = f]
    /\ RegistryOnly

\* progress_callback(100, ...) and download returns the path
CobaltDone(j) ==
    /\ At(j, "cobalt_run")
    /\ jobs' = update_progress(jobs, j, download_progress(100), NoStatus)
    /\ worker' = [worker EXCEPT ![j].pc = "info2", ![j].inner = -1,
                                ![j].probed = {}, ![j].fetchers = {}]
    /\ RegistryOnly

\* the API or the transfer fails: download raises RuntimeError
CobaltFail(j) ==
    /\ At(j, "cobalt_api") \/ At(j, "cobalt_run")
    /\ worker' = [worker EXCEPT ![j].pc = "cleanup", ![j].err = TRUE, ![j].inner = -1,
                                ![j].probed = {}, ![j].fetchers = {}]
    /\ WorkerOnly

\* ---------------------------------------------------- the pipeline stages
\* get_video_info; update_job(duration, title); update_progress(20, SEPARATING)
Info2(j) ==
    /\ At(j, "info2")
    /\ \E t \in Titles :
         jobs' = update_progress(
                    IF j \in DOMAIN jobs THEN [jobs EXCEPT ![j].source_title = t] ELSE jobs,
                    j, 20, SEPARATING)
    /\ Goto(j, "extracting")
    /\ RegistryOnly

\* upload path: the stored input must exist; update_progress(10, SEPARATING)
UpCheck(j) ==
    /\ At(j, "up_check")
    /\ uploads[j]
    /\ jobs' = update_progress(jobs, j, 10, SEPARATING)
    /\ Goto(j, "extracting")
    /\ RegistryOnly

\* upload path: `raise RuntimeError` when the stored input is gone
UpMissing(j) ==
    /\ At(j, "up_check")
    /\ ~uploads[j]
    /\ Raise(j)
    /\ WorkerOnly

\* extract_audio returned; update_progress(30 | 20, SEPARATING)
ExtractDone(j) ==
    /\ At(j, "extracting")
    /\ jobs' = update_progress(jobs, j, IF worker[j].kind = YOUTUBE THEN 30 ELSE 20, SEPARATING)
    /\ Goto(j, "separate")
    /\ RegistryOnly

\* the callbacks of VocalSeparator.separate, in its order: 0, (10,) 20, 80, 100
separator_next(inner) ==
    CASE inner = -1 -> {0}
      [] inner = 0 -> {10, 20}
      [] inner = 10 -> {20}
      [] inner = 20 -> {80}
      [] inner = 80 -> {100}
      [] OTHER -> {}

SeparatorProgress(j) ==
    /\ At(j, "separate")
    /\ \E p \in separator_next(worker[j].inner) :
         /\ jobs' = update_progress(jobs, j, separation_progress(worker[j].kind, p), NoStatus)
         /\ worker' = [worker EXCEPT ![j].inner = p]
    /\ RegistryOnly

\* the keys of the dict VocalSeparator.separate returns
separation_result_keys == {"vocals", "background", "sample_rate"}

\* `if "tracks" in separation_result`: copy the stems, update_job(track_paths)
CopyTracks(j) ==
    /\ At(j, "separate")
    /\ worker[j].inner = 100
    /\ IF "tracks" \in separation_result_keys
       THEN /\ results' = [results EXCEPT ![j] = @ \cup {s \o ".wav" : s \in Stems}]
            /\ jobs' = IF j \in DOMAIN jobs THEN [jobs EXCEPT ![j].track_paths = {Stems}] ELSE jobs
       ELSE UNCHANGED <<results, jobs>>
    /\ worker' = [worker EXCEPT ![j].inner = -1, ![j].pc = "copy_original"]
    /\ UNCHANGED <<processing_count, nextId, uploads, uploading, deleting, deleted, aux>>

\* get_result_path(job.id, "original.mp4") gives the path and makes sure the job
\* directory exists; copy2 writes the file; update_job(original_video_path)
CopyOriginal(j) ==
    /\ At(j, "copy_original")
    /\ results' = [results EXCEPT ![j] = @ \cup {"original.mp4"}]
    /\ jobs' = IF j \in DOMAIN jobs THEN [jobs EXCEPT ![j].original_video_path = TRUE] ELSE jobs
    /\ Goto(j, "merge_begin")
    /\ UNCHANGED <<processing_count, nextId, uploads, uploading, deleting, deleted, aux>>

\* update_progress(70, MERGING); merge_audio_video: progress_callback(0, ...)
MergeBegin(j) ==
    /\ At(j, "merge_begin")
    /\ jobs' = update_progress(update_progress(jobs, j, 70, MERGING), j, merge_progress(0), NoStatus)
    /\ Goto(j, "merging")
    /\ RegistryOnly

\* parent.mkdir(parents, exist_ok); ffmpeg wrote output.mp4; progress_callback(100, ...)
MergeDone(j) ==
    /\ At(j, "merging")
    /\ results' = [results EXCEPT ![j] = @ \cup {"output.mp4"}]
    /\ jobs' = update_progress(jobs, j, merge_progress(100), NoStatus)
    /\ Goto(j, "complete")
    /\ UNCHANGED <<processing_count, nextId, uploads, uploading, deleting, deleted, aux>>

\* job_manager.complete_job(job.id, result_path)
Complete(j) ==
    /\ At(j, "complete")
    /\ jobs' = complete_job(jobs, j)
    /\ Goto(j, "cleanup")
    /\ RegistryOnly

\* an external tool or a copy raises inside a stage
StageFail(j) ==
    /\ worker[j].pc \in {"info2", "extracting", "separate", "copy_original", "merging"}
    /\ worker' = [worker EXCEPT ![j].pc = "cleanup", ![j].err = TRUE, ![j].inner = -1]
    /\ WorkerOnly

\* a cleanup that raises after complete_job: the except handler of _process_job
\* then fails a job that is already COMPLETED
Cleanup_Raises(j) ==
    /\ At(j, "cleanup")
    /\ worker' = [worker EXCEPT ![j].tmp = 0, ![j].pc = "failing"]
    /\ WorkerOnly

\* finally of the stage function: shutil.rmtree(temp_dir, ignore_errors=True)
Cleanup(j) ==
    /\ At(j, "cleanup")
    /\ worker' = [worker EXCEPT ![j].tmp = 0,
                                ![j].pc = IF worker[j].err THEN "failing" ELSE "exit"]
    /\ WorkerOnly

\* except Exception in _process_job: job_manager.fail_job(job.id, str(e))
FailJob(j) ==
    /\ At(j, "failing")
    /\ \E e \in ErrorTexts : jobs' = fail_job(jobs, j, e)
    /\ worker' = [worker EXCEPT ![j].pc = "exit", ![j].err = FALSE]
    /\ RegistryOnly

\* finally of _process_job: job_manager.decrement_processing()
WorkerExit(j) ==
    /\ At(j, "exit")
    /\ processing_count' = decrement_processing(processing_count)
    /\ worker' = [worker EXCEPT ![j] = [NoWorker EXCEPT !.pc = "done"]]
    /\ UNCHANGED <<jobs, nextId, results, uploads, uploading, deleting, deleted, aux>>

Download(j) ==
    \/ DlInfo(j)
    \/ YtdlpStart(j)
    \/ YtdlpHook(j)
    \/ YtdlpFinished(j)
    \/ YtdlpDone(j)
    \/ YtdlpFail(j)
    \/ CobaltStart(j)
    \/ CobaltApiOk(j)
    \/ CobaltChunk(j)
    \/ CobaltDone(j)
    \/ CobaltFail(j)

Pipeline(j) ==
    \/ WorkerStart(j)
    \/ StageBegin(j)
    \/ Download(j)
    \/ Info2(j)
    \/ UpCheck(j)
    \/ UpMissing(j)
    \/ ExtractDone(j)
    \/ SeparatorProgress(j)
    \/ CopyTracks(j)
    \/ CopyOriginal(j)
    \/ MergeBegin(j)
    \/ MergeDone(j)
    \/ Complete(j)
    \/ StageFail(j)
    \/ Cleanup(j)
    \/ FailJob(j)
    \/ WorkerExit(j)

\* ---------------------------------------------------------------- importer
\* a lookup that never finds the title
find_job_by_title_none(js, title) == {}

\* JobManager.find_job_by_title: the first job, in insertion order, with the title
find_job_by_title(js, title) ==
    LET hits == {k \in DOMAIN js : js[k].source_title = title}
    IN IF hits = {} THEN {} ELSE {CHOOSE k \in hits : \A h \in hits : k <= h}

\* JobManager.add_imported_job
add_imported_job(js, id, job) == [k \in DOMAIN js \cup {id} |-> IF k = id THEN job ELSE js[k]]

\* the files _create_job_from_zip / _create_job_from_files_data write into job_dir
song_files(song) ==
    {t \o ".wav" : t \in song.stems} \cup (IF song.video THEN {"original.mp4"} ELSE {})

\* Job(...) without status=JobStatus.COMPLETED, progress=100: the
\* dataclass defaults (PENDING, 0) stay
imported_job_pending(song, title) ==
    [Job(UPLOAD, title) EXCEPT !.track_paths = {song.stems},
                               !.original_video_path = song.video]

\* the Job both of them build: COMPLETED, progress 100, track_paths set
imported_job(song, title) ==
    [Job(UPLOAD, title) EXCEPT !.status = COMPLETED, !.progress = 100,
                               !.track_paths = {song.stems},
                               !.original_video_path = song.video]

\* an except branch that leaves job_dir as it is
rmtree_skipped(files) == files

\* shutil.rmtree(job_dir, ignore_errors=True): what is left of the files in it
rmtree(files) == {}

\* _create_job_from_zip / _create_job_from_files_data on the registry js:
\* a fresh job_id, job_dir written, add_imported_job; on an exception
\* (here at the latest point, after every file was written and before
\* add_imported_job) rmtree(job_dir) and the exception goes to the caller
create_job_from_files(js, song, title, ok, limit) ==
    /\ nextId <= limit
    /\ nextId' = nextId + 1
    /\ IF ok
       THEN /\ jobs' = add_imported_job(js, nextId, imported_job(song, title))
            /\ results' = [results EXCEPT ![nextId] = song_files(song)]
       ELSE /\ jobs' = js
            /\ results' = [results EXCEPT ![nextId] = rmtree(song_files(song))]

ImportBase == UNCHANGED <<processing_count, worker, uploads, uploading, deleting, deleted, mixvars, httpvars, ratevars, bundlevars, regvars, proxyvars>>

\* POST /jobs/import with a single-song bundle: Importer._import_single_song
\* (maxJobs and maxConflicts bound the ids a run hands out)
ImportSong(song, maxJobs, maxConflicts) ==
    /\ deleting = 0
    /\ LET existing == find_job_by_title(jobs, song.title)
       IN IF existing # {}
          THEN /\ nextConflict <= maxConflicts
               /\ pending_imports' =
                      [c \in DOMAIN pending_imports \cup {nextConflict} |->
                          IF c = nextConflict
                          THEN [files_data |-> song, title |-> song.title,
                                existing_job_id |-> CHOOSE e \in existing : TRUE]
                          ELSE pending_imports[c]]
               /\ nextConflict' = nextConflict + 1
               /\ reply' = [NoReply EXCEPT !.op = "import", !.title = song.title, !.code = 200,
                                           !.conflicts = {nextConflict}]
               /\ UNCHANGED <<jobs, nextId, results>>
          ELSE /\ \E ok \in BOOLEAN :
                    /\ create_job_from_files(jobs, song, song.title, ok, maxJobs)
                    /\ reply' = [NoReply EXCEPT !.op = "import", !.title = song.title, !.code = 200,
                                                !.imported = IF ok THEN {nextId} ELSE {},
                                                !.errors = ~ok,
                                                !.error_count = IF ok THEN 0 ELSE 1]
               /\ UNCHANGED <<pending_imports, nextConflict>>
    /\ ImportBase

ResolveReply(cid, action) == [NoReply EXCEPT !.op = "resolve", !.cid = cid, !.action = action]

\* a resolve that leaves the pending entry where it is
remove_pending_kept(cid) == pending_imports

\* del self._pending_imports[conflict_id]
remove_pending(cid) == [c \in DOMAIN pending_imports \ {cid} |-> pending_imports[c]]

\* resolve_conflict, action 'overwrite': job_manager.delete_job(existing_job_id),
\* _create_job_from_files_data, del _pending_imports[conflict_id]
overwrite(cid, ok, limit) ==
    LET pending == pending_imports[cid]
    IN /\ create_job_from_files(delete_job(jobs, pending.existing_job_id),
                                pending.files_data, pending.title, ok, limit)
       /\ pending_imports' = IF ok THEN remove_pending(cid) ELSE pending_imports
       /\ reply' = [ResolveReply(cid, "overwrite") EXCEPT !.code = 200, !.errors = ~ok,
                                                          !.job = IF ok THEN {nextId} ELSE {}]

\* a rename that does not look whether new_title is taken
rename_unchecked(cid, new_title, ok, limit) ==
    LET pending == pending_imports[cid]
    IN /\ create_job_from_files(jobs, pending.files_data, new_title, ok, limit)
       /\ pending_imports' = IF ok THEN remove_pending(cid) ELSE pending_imports
       /\ reply' = [NoReply EXCEPT !.op = "resolve", !.cid = cid, !.action = "rename",
                                   !.code = 200, !.errors = ~ok, !.title = new_title,
                                   !.job = IF ok THEN {nextId} ELSE {}]

\* resolve_conflict, action 'rename': refused when new_title is taken, else
\* _create_job_from_files_data(files_data, metadata, new_title)
rename(cid, new_title, ok, limit) ==
    LET pending == pending_imports[cid]
    IN IF find_job_by_title(jobs, new_title) # {}
       THEN /\ reply' = [ResolveReply(cid, "rename") EXCEPT !.code = 200, !.errors = TRUE,
                                                            !.title = new_title]
            /\ UNCHANGED <<jobs, nextId, results, pending_imports>>
       ELSE /\ create_job_from_files(jobs, pending.files_data, new_title, ok, limit)
            /\ pending_imports' = IF ok THEN remove_pending(cid) ELSE pending_imports
            /\ reply' = [ResolveReply(cid, "rename") EXCEPT !.code = 200, !.errors = ~ok,
                                                            !.title = new_title,
                                                            !.job = IF ok THEN {nextId} ELSE {}]

\* a route that lets every action through to the importer
valid_action_any(action) == TRUE

\* `body.action not in ('overwrite', 'rename')` of the route
valid_action(action) == action \in {"overwrite", "rename"}

\* POST /jobs/import/resolve/{conflict_id}: resolve_import_conflict (400
\* INVALID_ACTION, 400 MISSING_TITLE for a rename with a falsy new_title) and
\* Importer.resolve_conflict (an error for an unknown conflict or action)
\* the request as the reply record keeps it: new_title matters for rename only
ResolveRequest(cid, action, new_title) ==
    [ResolveReply(cid, action) EXCEPT !.title = IF action = "rename" THEN new_title ELSE NoTitle]

ResolveConflict(cid, action, new_title, limit) ==
    /\ deleting = 0
    /\ IF ~valid_action(action)
       THEN /\ reply' = [ResolveRequest(cid, action, new_title) EXCEPT
                            !.code = 400, !.detail = "INVALID_ACTION"]
            /\ UNCHANGED <<jobs, nextId, results, pending_imports>>
       ELSE IF action = "rename" /\ new_title \in {NoTitle, ""}
       THEN /\ reply' = [ResolveRequest(cid, action, new_title) EXCEPT
                            !.code = 400, !.detail = "MISSING_TITLE"]
            /\ UNCHANGED <<jobs, nextId, results, pending_imports>>
       ELSE IF cid \notin DOMAIN pending_imports \/ action \notin {"overwrite", "rename"}
       THEN /\ reply' = [ResolveRequest(cid, action, new_title) EXCEPT
                            !.code = 200, !.errors = TRUE]
            /\ UNCHANGED <<jobs, nextId, results, pending_imports>>
       ELSE \E ok \in BOOLEAN :
               IF action = "overwrite" THEN overwrite(cid, ok, limit) ELSE rename(cid, new_title, ok, limit)
    /\ UNCHANGED nextConflict
    /\ ImportBase

\* ---------------------------------------------------- multi-song bundles
\* the importer's state while import_zip walks a bundle, and its ImportResult
ImportState ==
    [jobs |-> jobs, results |-> results, nextId |-> nextId,
     pending_imports |-> pending_imports, nextConflict |-> nextConflict,
     imported |-> {}, conflicts |-> {}, errors |-> 0, aborted |-> FALSE]

\* an exception of one song that leaves _import_inner_zip: import_zip's own
\* `except Exception` records it and returns
import_inner_zip_raising(st, inner) ==
    IF inner.kind = "song" /\ find_job_by_title(st.jobs, inner.song.title) = {}
    THEN [st EXCEPT !.jobs = add_imported_job(@, st.nextId, imported_job(inner.song, inner.song.title)),
                    !.results = [@ EXCEPT ![st.nextId] = song_files(inner.song)],
                    !.nextId = @ + 1,
                    !.imported = @ \cup {st.nextId}]
    ELSE [st EXCEPT !.errors = @ + 1, !.aborted = TRUE]

\* Importer._import_inner_zip on one inner archive: BadZipFile is caught by its
\* `except Exception`; _import_single_song catches the KeyError of a missing
\* metadata.json, the JSONDecodeError, and the exception of a failed write
\* (after rmtree(job_dir)); each adds one entry to errors
import_inner_zip(st, inner) ==
    IF inner.kind \in {"unreadable", "no_metadata", "bad_metadata"}
    THEN [st EXCEPT !.errors = @ + 1]
    ELSE LET existing == find_job_by_title(st.jobs, inner.song.title)
         IN IF existing # {}
            THEN [st EXCEPT !.pending_imports =
                               [c \in DOMAIN @ \cup {st.nextConflict} |->
                                   IF c = st.nextConflict
                                   THEN [files_data |-> inner.song, title |-> inner.song.title,
                                         existing_job_id |-> CHOOSE e \in existing : TRUE]
                                   ELSE @[c]],
                            !.nextConflict = @ + 1,
                            !.conflicts = @ \cup {st.nextConflict}]
            ELSE IF inner.kind = "write_fails"
            THEN [st EXCEPT !.nextId = @ + 1, !.errors = @ + 1]
            ELSE [st EXCEPT !.jobs = add_imported_job(@, st.nextId,
                                                      imported_job(inner.song, inner.song.title)),
                            !.results = [@ EXCEPT ![st.nextId] = song_files(inner.song)],
                            !.nextId = @ + 1,
                            !.imported = @ \cup {st.nextId}]

\* Importer.import_zip on the inner archives of a bundle, in namelist order
RECURSIVE import_zip(_, _)
import_zip(st, bundle) ==
    IF bundle = << >> \/ st.aborted THEN st
    ELSE import_zip(import_inner_zip(st, Head(bundle)), Tail(bundle))

\* POST /jobs/import with a multi-song bundle (maxJobs and maxConflicts bound
\* the ids a run hands out)
ImportBundle(bundle, maxJobs, maxConflicts) ==
    /\ deleting = 0
    /\ LET st == import_zip(ImportState, bundle)
       IN /\ st.nextId <= maxJobs + 1
          /\ st.nextConflict <= maxConflicts + 1
          /\ jobs' = st.jobs
          /\ results' = st.results
          /\ nextId' = st.nextId
          /\ pending_imports' = st.pending_imports
          /\ nextConflict' = st.nextConflict
          /\ reply' = [NoReply EXCEPT !.op = "bundle", !.code = 200, !.bundle = bundle,
                                      !.imported = st.imported, !.conflicts = st.conflicts,
                                      !.errors = st.errors > 0, !.error_count = st.errors]
    /\ ImportBase

\* ------------------------------------------------------------ remix engine
MixBase == UNCHANGED <<jobs, processing_count, nextId, worker, uploads, uploading, deleting, deleted, importvars, httpvars, ratevars, bundlevars, regvars, proxyvars>>

MixWork == UNCHANGED mix_status /\ MixBase

MixReply(j, m) == [NoMixReply EXCEPT !.n = mix_reply.n + 1, !.job = j, !.settings = m]

\* a check that never sees the in-flight entry
mix_in_flight_never(tasks, key) == FALSE

\* a check that takes every entry, whatever its status, to be in flight
mix_in_flight_any(tasks, key) == key \in DOMAIN tasks

\* `task_key in _mix_tasks and _mix_tasks[task_key]["status"] == "processing"`
mix_in_flight(tasks, key) == key \in DOMAIN tasks /\ tasks[key].status = "processing"

\* a check that never finds the output file
output_exists_never(files, mix_id) == FALSE

\* `os.path.exists(str(output_path))` for output_path = mix_<mix_id>.<ext>
output_exists(files, mix_id) == mix_file(mix_id) \in files

\* POST /jobs/{job_id}/mix: create_mix, which has no await
CreateMix(j, m) ==
    /\ deleting = 0
    /\ mix_reply.n < MaxMixPosts
    /\ LET mix_id == get_cache_key(j, m)
           key == task_key(j, mix_id)
       IN IF j \notin DOMAIN jobs
          THEN /\ mix_reply' = [MixReply(j, m) EXCEPT !.code = 404]
               /\ UNCHANGED <<mix_tasks, mix_threads>>
          ELSE IF jobs[j].status # COMPLETED \/ jobs[j].track_paths = {}
          THEN /\ mix_reply' = [MixReply(j, m) EXCEPT !.code = 400]
               /\ UNCHANGED <<mix_tasks, mix_threads>>
          ELSE IF output_exists(results[j], mix_id)
          THEN /\ mix_reply' = [MixReply(j, m) EXCEPT !.code = 202, !.mix_id = mix_id,
                                   !.status = "completed", !.progress = 100, !.cached = TRUE]
               /\ UNCHANGED <<mix_tasks, mix_threads>>
          ELSE IF mix_in_flight(mix_tasks, key)
          THEN /\ mix_reply' = [MixReply(j, m) EXCEPT !.code = 202, !.mix_id = mix_id,
                                   !.status = "processing", !.progress = mix_tasks[key].progress]
               /\ UNCHANGED <<mix_tasks, mix_threads>>
          ELSE /\ mix_tasks' = [k \in DOMAIN mix_tasks \cup {key} |->
                                   IF k = key THEN [status |-> "processing", progress |-> 0]
                                   ELSE mix_tasks[k]]
               /\ mix_threads' = [mix_threads EXCEPT ![key].started = @ + 1, ![key].mixing = @ + 1]
               /\ mix_reply' = [MixReply(j, m) EXCEPT !.code = 202, !.mix_id = mix_id,
                                   !.status = "processing", !.progress = 0]
    /\ UNCHANGED results
    /\ MixWork

\* run_mix: progress_callback sets _mix_tasks[task_key]["progress"]
MixProgress(k) ==
    /\ mix_threads[k].mixing > 0
    /\ \E p \in MixPercents : mix_tasks' = [mix_tasks EXCEPT ![k].progress = p]
    /\ UNCHANGED <<results, mix_threads, mix_reply>>
    /\ MixWork

\* mixer.mix_tracks writes output_path
MixWrite(k) ==
    /\ mix_threads[k].mixing > 0
    /\ results' = [results EXCEPT ![k[1]] = @ \cup {mix_file(k[2])}]
    /\ mix_threads' = [mix_threads EXCEPT ![k].mixing = @ - 1, ![k].written = @ + 1]
    /\ UNCHANGED <<mix_tasks, mix_reply>>
    /\ MixWork

\* mix_tracks returned: status "completed", progress 100
MixComplete(k) ==
    /\ mix_threads[k].written > 0
    /\ mix_tasks' = [mix_tasks EXCEPT ![k].status = "completed", ![k].progress = 100]
    /\ mix_threads' = [mix_threads EXCEPT ![k].written = @ - 1]
    /\ UNCHANGED <<results, mix_reply>>
    /\ MixWork

\* mix_tracks raised, after unlinking its partial output: status "failed"
MixFail(k) ==
    /\ \E at \in {"mixing", "written"} :
          /\ mix_threads[k][at] > 0
          /\ mix_threads' = [mix_threads EXCEPT ![k][at] = @ - 1]
    /\ results' = [results EXCEPT ![k[1]] = @ \ {mix_file(k[2])}]
    /\ mix_tasks' = [mix_tasks EXCEPT ![k].status = "failed"]
    /\ UNCHANGED mix_reply
    /\ MixWork

\* GET /jobs/{job_id}/mix/{mix_id}: an existing output file is reported as
\* completed and cached before _mix_tasks is looked at; 404 MIX_NOT_FOUND
\* without an entry; else the entry's status
GetMixStatus(j, m) ==
    /\ deleting = 0
    /\ LET mix_id == get_cache_key(j, m)
           key == task_key(j, mix_id)
           r == [NoMixStatus EXCEPT !.job = j, !.mix_id = mix_id]
       IN mix_status' =
            IF mix_file(mix_id) \in results[j]
            THEN [r EXCEPT !.code = 200, !.status = "completed", !.progress = 100, !.cached = TRUE]
            ELSE IF key \notin DOMAIN mix_tasks
            THEN [r EXCEPT !.code = 404]
            ELSE IF mix_tasks[key].status = "completed"
            THEN [r EXCEPT !.code = 200, !.status = "completed", !.progress = 100]
            ELSE [r EXCEPT !.code = 200, !.status = mix_tasks[key].status,
                           !.progress = mix_tasks[key].progress]
    /\ UNCHANGED <<results, mix_tasks, mix_threads, mix_reply>>
    /\ MixBase

\* -------------------------------------------------------- range streaming
Min(a, b) == IF a < b THEN a ELSE b

\* start = 0, end = file_size - 1; re.match(r'bytes=(\d+)-(\d*)', range)
range_start(range) == IF range.kind = "bytes" THEN range.first ELSE 0

range_end(range, file_size) ==
    IF range.kind = "bytes" /\ range.last # {}
    THEN CHOOSE e \in range.last : TRUE
    ELSE file_size - 1

\* the range arithmetic both handlers share: 416 when start >= file_size, else
\* end = min(end, file_size - 1), content_length = end - start + 1, and
\* `206 if range else 200`; range_file_iterator yields while remaining > 0
range_response(range, file_size) ==
    LET start == range_start(range)
        end == Min(range_end(range, file_size), file_size - 1)
        content_length == end - start + 1
    IN IF start >= file_size
       THEN [status |-> 416, start |-> 0, end |-> 0, content_length |-> 0, body |-> 0,
             accept_ranges |-> FALSE]
       ELSE [status |-> IF range.kind # "absent" THEN 206 ELSE 200,
             start |-> start, end |-> end, content_length |-> content_length,
             body |-> IF content_length > 0 THEN content_length ELSE 0,
             accept_ranges |-> TRUE]

StreamOf(handler, method, range, file_size, r) ==
    [handler |-> handler, method |-> method, file_size |-> file_size, range |-> range,
     status |-> r.status, start |-> r.start, end |-> r.end,
     content_length |-> r.content_length, body |-> r.body,
     accept_ranges |-> r.accept_ranges, job |-> 0, code |-> "none"]

StreamBase == UNCHANGED <<jobs, processing_count, nextId, worker, results, uploads, uploading,
                          deleting, deleted, importvars, mixvars, ratevars, bundlevars, regvars, upload, proxyvars>>

\* GET /jobs/{job_id}/stream on a result file of file_size bytes
StreamResult(range, file_size) ==
    /\ stream' = StreamOf("stream_result", "GET", range, file_size, range_response(range, file_size))
    /\ StreamBase

\* stream_result's choice of file: original_video_path if it is set and exists,
\* else result_key if it is set and exists, else none
stream_file(j) ==
    IF jobs[j].original_video_path /\ "original.mp4" \in results[j] THEN {"original.mp4"}
    ELSE IF jobs[j].result_key /\ "output.mp4" \in results[j] THEN {"output.mp4"}
    ELSE {}

StreamError(j, range, status, code) ==
    [NoStream EXCEPT !.handler = "stream_result", !.method = "GET", !.range = range,
                     !.status = status, !.job = j, !.code = code]

\* GET /jobs/{job_id}/stream, the whole handler: 404 JOB_NOT_FOUND, 400
\* JOB_NOT_COMPLETED, 400 NO_RESULT, then the range arithmetic on the chosen
\* file, whose size on disk is file_size
StreamJob(j, range, file_size) ==
    /\ stream' =
          IF j \notin DOMAIN jobs THEN StreamError(j, range, 404, "JOB_NOT_FOUND")
          ELSE IF jobs[j].status # COMPLETED THEN StreamError(j, range, 400, "JOB_NOT_COMPLETED")
          ELSE IF stream_file(j) = {} THEN StreamError(j, range, 400, "NO_RESULT")
          ELSE [StreamOf("stream_result", "GET", range, file_size,
                         range_response(range, file_size)) EXCEPT !.job = j]
    /\ StreamBase

\* stream_track on a stem of file_size bytes: the 416 check and the headers come
\* first; HEAD then returns Response(status_code=200, headers) without a body
stream_track(method, range, file_size) ==
    LET r == range_response(range, file_size)
    IN IF method = "HEAD" /\ r.status # 416
       THEN [r EXCEPT !.status = 200, !.body = 0]
       ELSE r

\* GET | HEAD /jobs/{job_id}/tracks/{track_name}
StreamTrack(method, range, file_size) ==
    /\ stream' = StreamOf("stream_track", method, range, file_size,
                          stream_track(method, range, file_size))
    /\ StreamBase

\* ------------------------------------------------------------ rate limiter
\* redis.get(key): None once the key has expired
redis_get == {e \in redis : now < e.expires}

\* redis.ttl(key): the remaining time in whole seconds, Redis rounding the
\* remaining milliseconds to the nearest second; -2 for a missing key
redis_ttl ==
    IF redis_get = {} THEN -2
    ELSE LET e == CHOOSE x \in redis_get : TRUE
         IN (((e.expires - now) * 1000) \div TicksPerSecond + 500) \div 1000

\* redis.setex(key, seconds, json.dumps(window_data))
redis_setex(seconds, count, window_start) ==
    {[count |-> count, window_start |-> window_start, expires |-> now + seconds * TicksPerSecond]}

\* `if count >= self.max_requests`
limit_exceeded(count) == count >= rate_limit_requests

\* check_rate_limit(client_ip): <<allowed, remaining, the key afterwards>>
check_rate_limit ==
    IF redis_get = {}
    THEN <<TRUE, rate_limit_requests - 1, redis_setex(rate_limit_window_seconds, 1, now)>>
    ELSE LET data == CHOOSE x \in redis_get : TRUE
         IN IF now - data.window_start > WindowTicks
            THEN <<TRUE, rate_limit_requests - 1, redis_setex(rate_limit_window_seconds, 1, now)>>
            ELSE IF limit_exceeded(data.count)
            THEN <<FALSE, 0, redis>>
            ELSE <<TRUE, rate_limit_requests - data.count - 1,
                   IF redis_ttl > 0
                   THEN redis_setex(redis_ttl, data.count + 1, data.window_start)
                   ELSE redis>>

RateBase == UNCHANGED <<jobs, processing_count, nextId, worker, results, uploads, uploading,
                        deleting, deleted, importvars, mixvars, httpvars, bundlevars, regvars, proxyvars>>

\* one call of check_rate_limit by the client; rl numbers the call within the
\* window of WindowTicks that began with the client's first call (start), a
\* call at or after the end of that window beginning the next one
CheckRateLimit ==
    /\ rl.calls < MaxCalls
    /\ LET res == check_rate_limit
           fresh == rl.start < 0 \/ now - rl.start > WindowTicks
                    \/ (now - rl.start = WindowTicks /\ res[3] = redis_setex(rate_limit_window_seconds, 1, now))
       IN /\ redis' = res[3]
          /\ rl' = [rl EXCEPT !.calls = @ + 1,
                              !.start = IF fresh THEN now ELSE @,
                              !.nth = IF fresh THEN 1 ELSE @ + 1,
                              !.at = now - rl.start,
                              !.allowed = res[1], !.remaining = res[2]]
    /\ UNCHANGED <<now, race>>
    /\ RateBase

\* time passes; an expired key is gone
AdvanceClock(d) ==
    /\ rl.advances < MaxAdvances
    /\ now' = now + d
    /\ redis' = {e \in redis : now + d < e.expires}
    /\ rl' = [rl EXCEPT !.advances = @ + 1]
    /\ UNCHANGED race
    /\ RateBase

\* check_rate_limit from `if data is None` on, for the data its redis.get
\* returned earlier: <<allowed, the key afterwards>>; redis.ttl and redis.setex
\* act on the key as it is now
check_rate_limit_write(data) ==
    IF data = {}
    THEN <<TRUE, redis_setex(rate_limit_window_seconds, 1, now)>>
    ELSE LET window_data == CHOOSE x \in data : TRUE
         IN IF now - window_data.window_start > WindowTicks
            THEN <<TRUE, redis_setex(rate_limit_window_seconds, 1, now)>>
            ELSE IF limit_exceeded(window_data.count)
            THEN <<FALSE, redis>>
            ELSE <<TRUE, IF redis_ttl > 0
                         THEN redis_setex(redis_ttl, window_data.count + 1, window_data.window_start)
                         ELSE redis>>

\* a thread enters check_rate_limit: `data = self.redis.get(key)`
RateRead(c) ==
    /\ race.calls < MaxCalls
    /\ race.pc[c] = "idle"
    /\ race' = [race EXCEPT !.pc[c] = "read", !.data[c] = redis_get, !.calls = @ + 1]
    /\ UNCHANGED <<redis, now, rl>>
    /\ RateBase

\* the same thread goes on from the data it read to its return
RateWrite(c) ==
    /\ race.pc[c] = "read"
    /\ LET res == check_rate_limit_write(race.data[c])
       IN /\ redis' = res[2]
          /\ race' = [race EXCEPT !.pc[c] = "idle", !.data[c] = {},
                                  !.allowed = IF res[1] THEN @ + 1 ELSE @,
                                  !.denied = IF res[1] THEN @ ELSE @ + 1]
    /\ UNCHANGED <<now, rl>>
    /\ RateBase

\* ------------------------------------------------------------- uploads
\* str.lower() on the characters of the names above
lower(c) == CASE c = "M" -> "m" [] c = "P" -> "p" [] OTHER -> c

\* os.path.splitext(filename)[1]: from the last dot on, leading dots aside
splitext_ext(filename) ==
    LET dots == {i \in 1..Len(filename) :
                    filename[i] = "." /\ \E k \in 1..(i - 1) : filename[k] # "."}
    IN IF dots = {} THEN << >>
       ELSE SubSeq(filename, CHOOSE i \in dots : \A k \in dots : k <= i, Len(filename))

\* a check that lets every file name through
validate_file_extension_any(filename) == TRUE

\* validate_file_extension: splitext(filename)[1].lower() in ALLOWED_EXTENSIONS
validate_file_extension(filename) ==
    LET ext == splitext_ext(filename)
    IN [i \in 1..Len(ext) |-> lower(ext[i])] \in ALLOWED_EXTENSIONS

UploadReply(filename, status, code) ==
    [NoUpload EXCEPT !.filename = filename, !.status = status, !.code = code]

\* POST /jobs/upload with the file name, up to `await file.read()`:
\* 503 SERVICE_BUSY, 400 MISSING_FILE, 400 INVALID_FILE_TYPE, or the handler
\* goes on to read the file (limit bounds the job ids of a run)
UploadBegin(filename, limit) ==
    /\ deleting = 0
    /\ ~upload.reading
    /\ IF ~can_accept_job
       THEN /\ upload' = UploadReply(filename, 503, "SERVICE_BUSY")
            /\ UNCHANGED uploading
       ELSE IF filename = << >>
       THEN /\ upload' = UploadReply(filename, 400, "MISSING_FILE")
            /\ UNCHANGED uploading
       ELSE IF ~validate_file_extension(filename)
       THEN /\ upload' = UploadReply(filename, 400, "INVALID_FILE_TYPE")
            /\ UNCHANGED uploading
       ELSE /\ nextId + uploading <= limit
            /\ upload' = [UploadReply(filename, 0, "none") EXCEPT !.reading = TRUE]
            /\ uploading' = uploading + 1
    /\ UNCHANGED <<jobs, processing_count, nextId, worker, results, uploads, deleting, deleted,
                   importvars, mixvars, stream, ratevars, bundlevars, regvars, proxyvars>>

\* the rest of the handler: content = await file.read(), of size MB;
\* save_upload; create_job; process_job_async; 201
UploadFinish(size) ==
    /\ deleting = 0
    /\ upload.reading
    /\ \E t \in Titles :
         jobs' = create_job(jobs, nextId, Job(UPLOAD, t))
    /\ uploads' = [uploads EXCEPT ![nextId] = TRUE]
    /\ worker' = process_job_async(nextId, UPLOAD)
    /\ nextId' = nextId + 1
    /\ uploading' = uploading - 1
    /\ upload' = [upload EXCEPT !.reading = FALSE, !.size = size, !.status = 201, !.job = nextId]
    /\ UNCHANGED <<processing_count, results, deleting, deleted,
                   importvars, mixvars, stream, ratevars, bundlevars, regvars, proxyvars>>

\* ------------------------------------------------------- bundle transfer
\* dict.get(key, default): the default only when the key is absent
metadata_get(metadata, key, default) ==
    IF metadata[key].present THEN metadata[key].value ELSE default

\* Importer._create_job_from_zip: the stems and the video found in the archive
\* are written into job_dir and the Job is built from metadata.json
create_job_from_zip(zip) ==
    LET names == DOMAIN zip.entries
        stems == {t \in Stems : (t \o ".wav") \in names}
        video == "video.mp4" \in names
        written == {t \o ".wav" : t \in stems} \cup (IF video THEN {"original.mp4"} ELSE {})
    IN [job |-> [status |-> COMPLETED,
                 source_title |-> metadata_get(zip.metadata, "source_title", {"Untitled"}),
                 original_duration |-> metadata_get(zip.metadata, "original_duration", None),
                 sample_rate |-> metadata_get(zip.metadata, "sample_rate", {default_sample_rate}),
                 track_paths |-> {stems},
                 original_video_path |-> video],
        files |-> [n \in written |->
                     IF n = "original.mp4" THEN zip.entries["video.mp4"] ELSE zip.entries[n]]]

\* Importer.import_zip of a single-song archive into the registry js:
\* a free title goes to _create_job_from_zip
import_single_song(js, zip) ==
    IF find_job_by_title(js, metadata_get(zip.metadata, "source_title", {"Untitled"})) = {}
    THEN {create_job_from_zip(zip)}
    ELSE {}

\* Exporter.create_metadata: every key is written; `job.sample_rate or 44100`
create_metadata(job) ==
    [source_title |-> Present(job.source_title),
     original_duration |-> Present(job.original_duration),
     sample_rate |-> Present(IF job.sample_rate \in {None, {0}}
                             THEN {default_sample_rate} ELSE job.sample_rate)]

\* Exporter.create_single_zip: None without track_paths; else the stems whose
\* path is set and exists, the original video if it exists, and metadata.json
create_single_zip(job, files) ==
    IF job.track_paths = {}
    THEN {}
    ELSE LET stems == {t \in Stems : /\ \E tp \in job.track_paths : t \in tp
                                     /\ (t \o ".wav") \in DOMAIN files}
             video == job.original_video_path /\ "original.mp4" \in DOMAIN files
             names == {t \o ".wav" : t \in stems} \cup (IF video THEN {"video.mp4"} ELSE {})
         IN {[entries |-> [n \in names |->
                             IF n = "video.mp4" THEN files["original.mp4"] ELSE files[n]],
              metadata |-> create_metadata(job)]}

BundleBase ==
    UNCHANGED <<jobs, processing_count, nextId, worker, results, uploads, uploading,
                deleting, deleted, importvars, mixvars, httpvars, ratevars, regvars, proxyvars>>

\* POST /jobs/import on an instance with an empty registry: the job to export
ReceiveBundle(zip) ==
    /\ xfer.stage = "none"
    /\ xfer' = [xfer EXCEPT !.stage = "have_job", !.src = import_single_song(<< >>, zip)]
    /\ BundleBase

\* POST /jobs/export with that one COMPLETED job: 500 EXPORT_FAILED without a zip
ExportJob ==
    /\ xfer.stage = "have_job"
    /\ \E s \in xfer.src :
         /\ s.job.status = COMPLETED
         /\ LET zip == create_single_zip(s.job, s.files)
            IN xfer' = [xfer EXCEPT !.stage = IF zip = {} THEN "export_failed" ELSE "exported",
                                    !.zip = zip]
    /\ BundleBase

\* POST /jobs/import of the exported bundle on a second instance, registry empty
ReimportBundle ==
    /\ xfer.stage = "exported"
    /\ \E zip \in xfer.zip :
         xfer' = [xfer EXCEPT !.stage = "imported", !.dst = import_single_song(<< >>, zip)]
    /\ BundleBase

Next ==
    \/ CreateJob(MaxJobs)
    \/ UploadAdmit(MaxJobs)
    \/ UploadCreate
    \/ \E j \in JobIds : DeleteJobFiles(j)
    \/ \E j \in JobIds : DeleteJobEntry(j)
    \/ \E j \in JobIds : Pipeline(j)

Spec == Init /\ [][Next]_vars

\* the same system with at most SoloJobs submissions: the per-job properties
NextJob ==
    \/ CreateJob(SoloJobs)
    \/ UploadAdmit(SoloJobs)
    \/ UploadCreate
    \/ \E j \in JobIds : DeleteJobFiles(j)
    \/ \E j \in JobIds : DeleteJobEntry(j)
    \/ \E j \in JobIds : Pipeline(j)

SpecJob == Init /\ [][NextJob]_vars

NextImport ==
    \/ \E song \in Songs : ImportSong(song, MaxImports, MaxConflicts)
    \/ \E cid \in ConflictIds, action \in {"overwrite", "rename", "merge"},
          new_title \in BundleTitles \cup {NoTitle, ""} :
             ResolveConflict(cid, action, new_title, MaxImports)
    \/ \E j \in JobIds : DeleteJobFiles(j)
    \/ \E j \in JobIds : DeleteJobEntry(j)

SpecImport == Init /\ [][NextImport]_vars

\* imported jobs with all four stems and the remix requests on them
NextMix ==
    \/ \E song \in {x \in Songs : x.stems = Stems} : ImportSong(song, SoloJobs, 0)
    \/ \E j \in JobIds, m \in MixSettingsSet : CreateMix(j, m)
    \/ \E k \in TaskKeys : MixProgress(k)
    \/ \E k \in TaskKeys : MixWrite(k)
    \/ \E k \in TaskKeys : MixComplete(k)
    \/ \E k \in TaskKeys : MixFail(k)
    \/ \E j \in JobIds : DeleteJobFiles(j)
    \/ \E j \in JobIds : DeleteJobEntry(j)

SpecMix == Init /\ [][NextMix]_vars

\* the range arithmetic of the two streaming handlers over sizes and headers
NextRange ==
    \/ \E range \in RangeHeaders, size \in 0..MaxFileSize : StreamResult(range, size)
    \/ \E method \in {"GET", "HEAD"}, range \in RangeHeaders, size \in 0..MaxFileSize :
          StreamTrack(method, range, size)

SpecRange == Init /\ [][NextRange]_vars

\* one client IP calling check_rate_limit as time passes
NextRate ==
    \/ CheckRateLimit
    \/ \E d \in ClockSteps : AdvanceClock(d)

SpecRate == Init /\ [][NextRate]_vars

\* two threads calling check_rate_limit for one client IP at one instant
NextRateRace ==
    \/ \E c \in Callers : RateRead(c)
    \/ \E c \in Callers : RateWrite(c)

SpecRateRace == Init /\ [][NextRateRace]_vars

\* a bundle received, exported again and imported into an empty registry
NextBundle ==
    \/ \E zip \in Zips : ReceiveBundle(zip)
    \/ ExportJob
    \/ ReimportBundle

SpecBundle == Init /\ [][NextBundle]_vars

\* one job, made by the pipeline or by an import, and the requests that stream it
PlainRanges == {r \in RangeHeaders : r.kind # "bytes" \/ (r.first = 0 /\ r.last = {})}

NextStream ==
    \/ CreateJob(SoloJobs)
    \/ UploadAdmit(SoloJobs)
    \/ UploadCreate
    \/ \E j \in JobIds : Pipeline(j)
    \/ \E song \in Songs : ImportSong(song, SoloJobs, 0)
    \/ \E j \in JobIds : DeleteJobFiles(j)
    \/ \E j \in JobIds : DeleteJobEntry(j)
    \/ \E j \in 1..SoloJobs, range \in PlainRanges, size \in 0..MaxFileSize : StreamJob(j, range, size)

SpecStream == Init /\ [][NextStream]_vars

\* uploads with their file names and sizes, next to URL jobs and the workers
NextUpload ==
    \/ CreateJob(SoloJobs)
    \/ \E filename \in FileNames : UploadBegin(filename, SoloJobs)
    \/ \E size \in FileSizes : UploadFinish(size)
    \/ \E j \in JobIds : DeleteJobFiles(j)
    \/ \E j \in JobIds : DeleteJobEntry(j)
    \/ \E j \in JobIds : Pipeline(j)

SpecUpload == Init /\ [][NextUpload]_vars

\* the remix requests together with the status polls
NextMixStatus ==
    \/ \E song \in {x \in Songs : x.stems = Stems} : ImportSong(song, SoloJobs, 0)
    \/ \E j \in JobIds, m \in MixSettingsSet : CreateMix(j, m)
    \/ \E k \in TaskKeys : MixProgress(k)
    \/ \E k \in TaskKeys : MixWrite(k)
    \/ \E k \in TaskKeys : MixComplete(k)
    \/ \E k \in TaskKeys : MixFail(k)
    \/ \E j \in 1..SoloJobs, m \in MixSettingsSet : GetMixStatus(j, m)
    \/ \E j \in JobIds : DeleteJobFiles(j)
    \/ \E j \in JobIds : DeleteJobEntry(j)

SpecMixStatus == Init /\ [][NextMixStatus]_vars

\* multi-song bundles arriving one after another at an instance
NextImportBundle ==
    \/ \E bundle \in Bundles : ImportBundle(bundle, MaxImports, MaxConflicts)

SpecImportBundle == Init /\ [][NextImportBundle]_vars

\* the JobManager methods called in any order on a registry of whole records
NextRegistry ==
    \/ \E created_at \in 0..MaxStamp : RegistryCreate(created_at, MaxRegistry)
    \/ \E id \in 1..MaxRegistry, progress \in ProgressArgs, stage \in StageTexts, status \in StatusArgs :
          RegistryUpdateProgress(id, progress, stage, status)
    \/ \E id \in 1..MaxRegistry, result_path \in ResultPaths : RegistryComplete(id, result_path)
    \/ \E id \in 1..MaxRegistry, error_message \in ErrorTexts : RegistryFail(id, error_message)
    \/ RegistryList

SpecRegistry == Init /\ [][NextRegistry]_vars

\* ------------------------------------------------------------ properties
NonTerminalJobs == {j \in DOMAIN jobs : jobs[j].status \in NonTerminal}

\* C1: in every reachable state the number of Registry jobs in a non-terminal
\* status is at most max_concurrent_jobs.
C1_NonTerminalBounded == Cardinality(NonTerminalJobs) <= max_concurrent_jobs

PipelineSteps ==
    {<<PENDING, DOWNLOADING>>, <<DOWNLOADING, SEPARATING>>,
     <<SEPARATING, MERGING>>, <<MERGING, COMPLETED>>}

LegalStatusChange(a, b) ==
    a # b => /\ a \in NonTerminal
             /\ (<<a, b>> \in PipelineSteps \/ b = FAILED)

\* C2: every change of a job's status is one step along PENDING -> DOWNLOADING ->
\* SEPARATING -> MERGING -> COMPLETED or a step to FAILED, and a COMPLETED or
\* FAILED job never changes status again.
C2_StatusTransitions ==
    [][\A j \in DOMAIN jobs \cap DOMAIN jobs' :
          LegalStatusChange(jobs[j].status, jobs'[j].status)]_vars

\* a job went through the whole pipeline and its worker has exited
C2_Witness == \E j \in DOMAIN jobs : jobs[j].status = COMPLETED /\ worker[j].pc = "done"

\* C3: while a job is non-terminal, each progress value the pipeline writes is
\* at least the value it replaces.
C3_ProgressMonotone ==
    [][\A j \in DOMAIN jobs \cap DOMAIN jobs' :
          (jobs[j].status \in NonTerminal /\ jobs'[j].status \in NonTerminal)
              => jobs'[j].progress >= jobs[j].progress]_vars

\* C5: once DELETE /jobs/{id} has returned 204 the Registry has no entry for id
\* and no file exists under the job's results directory, in every later state.
C5_DeletedStaysGone ==
    \A j \in deleted : j \notin DOMAIN jobs /\ results[j] = {}

\* C8: when the probe reports a duration above max_video_duration, download
\* starts neither fetcher.
C8_OverlongRejected ==
    \A j \in JobIds :
        (\E d \in worker[j].probed : d > max_video_duration) => worker[j].fetchers = {}

\* the latest step was an import call / a resolve call that answered
ImportStep == reply' # reply /\ reply'.op = "import"

ResolveStep(action) == reply' # reply /\ reply'.op = "resolve" /\ reply'.action = action

TitleTaken(title) == \E k \in DOMAIN jobs : jobs[k].source_title = title

C10_OverwriteReplaces ==
    [][\A c \in DOMAIN pending_imports :
          (ResolveStep("overwrite") /\ reply'.cid = c /\ reply'.job # {}) =>
             LET pending == pending_imports[c]
             IN /\ pending.existing_job_id \notin DOMAIN jobs'
                /\ results'[pending.existing_job_id] = {}
                /\ \E n \in reply'.job :
                      /\ n \in DOMAIN jobs'
                      /\ jobs'[n].status = COMPLETED
                      /\ jobs'[n].source_title = pending.title
                      /\ results'[n] = song_files(pending.files_data)]_vars

\* workers of a task key that are running
Running(threads, k) == threads[k].mixing + threads[k].written

\* C4: POST /jobs/{id}/mix with the settings of an earlier request on the same
\* COMPLETED job answers with the same mix_id; it reports cached=true, or
\* reports the in-flight entry's progress and starts no worker, or, when the
\* earlier worker has already failed, starts a new worker at progress 0. At
\* most one worker of a key runs at any time, on the single path mix_<mix_id>.
C4_MixSingleFlight ==
    [][/\ \A k \in TaskKeys : Running(mix_threads', k) <= 1
       /\ (mix_reply'.n = mix_reply.n + 1 /\ mix_reply'.code = 202) =>
            LET r == mix_reply'
                k == task_key(r.job, r.mix_id)
            IN /\ r.mix_id = get_cache_key(r.job, r.settings)
               /\ mix_threads[k].started >= 1 =>
                    \/ /\ r.cached /\ r.status = "completed"
                       /\ mix_file(r.mix_id) \in results[r.job]
                       /\ mix_threads' = mix_threads
                    \/ /\ ~r.cached /\ r.status = "processing"
                       /\ mix_tasks[k].status = "processing"
                       /\ r.progress = mix_tasks[k].progress
                       /\ mix_threads' = mix_threads
                    \/ /\ ~r.cached /\ r.status = "processing" /\ r.progress = 0
                       /\ mix_tasks[k].status = "failed"
                       /\ Running(mix_threads, k) = 0
                       /\ mix_threads'[k].started = mix_threads[k].started + 1]_vars

\* the second request of a key found the first one in flight
C4_Witness ==
    /\ mix_reply.n = 2 /\ mix_reply.code = 202
    /\ mix_reply.status = "processing" /\ mix_reply.progress > 0
    /\ mix_threads[task_key(mix_reply.job, mix_reply.mix_id)].started = 1

\* C4 as stated: exactly one mix worker is ever started for a key
C4_ExactlyOneWorker == \A k \in TaskKeys : mix_threads[k].started <= 1

\* C6: a GET with Range: bytes=a-b (b optional) on an artifact of size S is
\* answered 416 when a >= S, and otherwise 206 with an effective range a..b'
\* where a <= b' <= S-1, Content-Length = b'-a+1, Content-Range = bytes a-b'/S.
C6_RangeResponse ==
    (stream.method = "GET" /\ stream.range.kind = "bytes") =>
        IF stream.range.first >= stream.file_size
        THEN stream.status = 416
        ELSE /\ stream.status = 206
             /\ stream.start = stream.range.first
             /\ stream.start <= stream.end
             /\ stream.end <= stream.file_size - 1
             /\ stream.content_length = stream.end - stream.start + 1

\* C7: within one window of W seconds the first N calls are allowed and the
\* (N+1)th is rejected; a call made more than W seconds after the window
\* started is allowed and starts a new window with count 1.
C7_WindowLimit ==
    [][rl'.calls = rl.calls + 1 =>
         /\ (rl'.nth > 1 /\ rl'.at < WindowTicks) =>
               (rl'.allowed <=> rl'.nth <= rate_limit_requests)
         /\ (rl'.nth = 1 /\ (rl'.calls = 1 \/ rl'.at > WindowTicks)) =>
               /\ rl'.allowed
               /\ rl'.remaining = rate_limit_requests - 1
               /\ \E e \in redis' : e.count = 1 /\ e.window_start = now]_vars

C12_RoundTrip ==
    xfer.stage = "imported" =>
        \A s \in xfer.src :
            \E d \in xfer.dst :
                /\ d.job.source_title = s.job.source_title
                /\ d.job.original_duration = s.job.original_duration
                /\ d.job.sample_rate = s.job.sample_rate
                /\ \A t \in Stems :
                     (t \o ".wav") \in DOMAIN s.files =>
                        /\ (t \o ".wav") \in DOMAIN d.files
                        /\ d.files[t \o ".wav"] = s.files[t \o ".wav"]

\* C13: in every reachable state can_accept_job() is true exactly when fewer
\* than max_concurrent_jobs jobs of the registry are in a non-terminal status
C13_AcceptIffBelowLimit ==
    can_accept_job <=> Cardinality(NonTerminalJobs) < max_concurrent_jobs

\* C14: for every COMPLETED job, made by the pipeline or by an import, GET
\* /jobs/{id}/stream without a Range header answers 200 with a body as long as
\* the streamed artifact
C14_StreamCompleted ==
    [][\A j \in DOMAIN jobs :
          (/\ stream' # stream
           /\ stream'.handler = "stream_result" /\ stream'.job = j
           /\ stream'.range.kind = "absent"
           /\ jobs[j].status = COMPLETED) =>
              /\ stream'.status = 200
              /\ stream'.body = stream'.file_size]_vars

\* C15: a GET without a Range header on an existing artifact of S >= 0 bytes is
\* answered 200 with Content-Length S and Accept-Ranges: bytes, never 206 or 416
C15_PlainGet ==
    (/\ stream.handler \in {"stream_result", "stream_track"}
     /\ stream.method = "GET" /\ stream.range.kind = "absent"
     /\ stream.code = "none") =>
        /\ stream.status = 200
        /\ stream.content_length = stream.file_size
        /\ stream.accept_ranges

\* C16: for every stem size and Range header a HEAD on /jobs/{id}/tracks/{name}
\* has the status code, Content-Range, Content-Length and Accept-Ranges of the
\* GET with the same inputs, and no body
C16_HeadMatchesGet ==
    (stream.handler = "stream_track" /\ stream.method = "HEAD") =>
        LET get == stream_track("GET", stream.range, stream.file_size)
        IN /\ stream.status = get.status
           /\ stream.start = get.start /\ stream.end = get.end
           /\ stream.content_length = get.content_length
           /\ stream.accept_ranges = get.accept_ranges
           /\ stream.body = 0

\* file names whose extension is not on the list, and media file names
OtherNames == {<<"a">>, <<"a", ".", "t", "x", "t">>, <<"a", ".", "m", "p", "4", ".", "t", "x", "t">>}
MediaNames == {<<"a", ".", "m", "p", "4">>, <<"a", ".", "M", "P", "4">>, <<"a", ".", "w", "e", "b", "m">>}

\* a step of POST /jobs/upload for a file name off the list
OtherNameStep == upload' # upload /\ upload'.filename \in OtherNames

NothingStarted ==
    /\ ~upload'.reading /\ upload'.job = 0
    /\ jobs' = jobs /\ uploads' = uploads /\ worker' = worker /\ uploading' = uploading

\* C17 (amended): a POST /jobs/upload whose file name has an extension off the
\* list is rejected, with 503 SERVICE_BUSY when can_accept_job() is false and
\* with 400 INVALID_FILE_TYPE otherwise; no upload file is stored, no job is
\* created and no worker is started
C17_BadExtensionRejected ==
    [][OtherNameStep =>
          /\ IF can_accept_job
             THEN upload'.status = 400 /\ upload'.code = "INVALID_FILE_TYPE"
             ELSE upload'.status = 503 /\ upload'.code = "SERVICE_BUSY"
          /\ NothingStarted]_vars

\* an extension off the list was turned down with INVALID_FILE_TYPE on an idle
\* instance, and no upload file is on disk
C17_Witness ==
    /\ upload.filename \in OtherNames
    /\ upload.code = "INVALID_FILE_TYPE"
    /\ uploads = [j \in StoreIds |-> FALSE]
    /\ processing_count = 0

\* C17 as stated: every such request is rejected with INVALID_FILE_TYPE
C17_AlwaysInvalidFileType ==
    [][OtherNameStep => upload'.code = "INVALID_FILE_TYPE" /\ NothingStarted]_vars

\* C18: a POST /jobs/upload of a media file larger than max_file_size_mb is
\* answered 400 FILE_TOO_LARGE, and no upload is stored, no job is created and
\* no worker is started for it
C18_OversizeRejected ==
    (/\ upload.filename \in MediaNames
     /\ upload.size > max_file_size_mb
     /\ upload.status \notin {0, 503}) =>
        /\ upload.status = 400 /\ upload.code = "FILE_TOO_LARGE"
        /\ upload.job = 0

\* the key a status poll asks about
PolledKey == task_key(mix_status'.job, mix_status'.mix_id)

BrokenAt(bundle) == {i \in DOMAIN bundle : bundle[i].kind \in {"unreadable", "no_metadata", "bad_metadata"}}
SongsAt(bundle) == {i \in DOMAIN bundle : bundle[i].kind = "song"}

\* C20: in a multi-song bundle every song that cannot be read or written adds
\* one entry to errors[], and every other song of the bundle is still imported
\* as a new COMPLETED job or staged as a conflict
C20_BadSongIsolated ==
    [][(reply' # reply /\ reply'.op = "bundle") =>
          LET b == reply'.bundle
          IN /\ reply'.error_count + Cardinality(reply'.imported)
                  + Cardinality(reply'.conflicts) = Len(b)
             /\ reply'.error_count >= Cardinality(BrokenAt(b))
             /\ reply'.error_count <= Len(b) - Cardinality(SongsAt(b))
             /\ \A i \in SongsAt(b) :
                   \/ \E n \in reply'.imported :
                         /\ n \notin DOMAIN jobs
                         /\ jobs'[n].source_title = b[i].song.title
                         /\ jobs'[n].status = COMPLETED
                         /\ results'[n] = song_files(b[i].song)
                   \/ \E c \in reply'.conflicts :
                         /\ c \notin DOMAIN pending_imports
                         /\ pending_imports'[c].title = b[i].song.title
             /\ \A k \in DOMAIN jobs : k \in DOMAIN jobs' /\ jobs'[k] = jobs[k]]_vars

\* a bundle whose first archive is broken and whose second song was imported
C20_Witness ==
    /\ reply.op = "bundle" /\ Len(reply.bundle) >= 2
    /\ reply.bundle[1].kind \in {"unreadable", "no_metadata", "bad_metadata"}
    /\ reply.bundle[2].kind = "song"
    /\ reply.error_count = 1
    /\ reply.imported # {}

\* C21: POST /jobs/import/resolve/{conflict_id} with an action other than
\* overwrite or rename returns INVALID_ACTION, and with action rename and no
\* new_title returns MISSING_TITLE; the registry, the files on disk and the
\* pending conflicts are unchanged in both cases
C21_TypedErrors ==
    [][(reply' # reply /\ reply'.op = "resolve") =>
          /\ reply'.action \notin {"overwrite", "rename"} =>
                /\ reply'.code = 400 /\ reply'.detail = "INVALID_ACTION"
                /\ jobs' = jobs /\ results' = results /\ pending_imports' = pending_imports
          /\ (reply'.action = "rename" /\ reply'.title \in {NoTitle, ""}) =>
                /\ reply'.code = 400 /\ reply'.detail = "MISSING_TITLE"
                /\ jobs' = jobs /\ results' = results /\ pending_imports' = pending_imports]_vars

\* an unknown action was refused while the conflict it names was pending
C21_Witness ==
    /\ reply.op = "resolve" /\ reply.detail = "INVALID_ACTION"
    /\ reply.cid \in DOMAIN pending_imports

Elements(seq) == {seq[i] : i \in 1..Len(seq)}

NewestFirst(seq) == \A i, k \in 1..Len(seq) : i < k => seq[i].created_at >= seq[k].created_at

\* C22: get_all_jobs() returns two lists: the first holds exactly the registry
\* jobs in status COMPLETED, the second exactly those in a non-terminal status,
\* no job is in both, and each list is ordered by created_at descending
C22_ListsPartitionAndOrder ==
    [][call'.op = "get_all_jobs" =>
          /\ Elements(call'.completed) = {r \in Elements(registry) : r.status = COMPLETED}
          /\ Len(call'.completed) = Cardinality(Elements(call'.completed))
          /\ Elements(call'.processing) = {r \in Elements(registry) : r.status \in NonTerminal}
          /\ Len(call'.processing) = Cardinality(Elements(call'.processing))
          /\ Elements(call'.completed) \cap Elements(call'.processing) = {}
          /\ NewestFirst(call'.completed)
          /\ NewestFirst(call'.processing)]_vars

\* two completed jobs were listed, the one registered first being the older
C22_Witness ==
    /\ call.op = "get_all_jobs"
    /\ Len(call.completed) = 2
    /\ call.completed[1].created_at > call.completed[2].created_at
    /\ registry[1].created_at < registry[2].created_at

\* C23: every POST /jobs and POST /jobs/upload request consults the per-IP rate
\* limiter before a job is created (and an IP over its limit gets
\* RATE_LIMIT_EXCEEDED and no job): a job id is handed out only after a call of
\* check_rate_limit for that request, so the jobs created never outnumber the calls
C23_LimiterConsulted == nextId - 1 <= rl.calls

OthersKept(id) ==
    /\ Len(registry') = Len(registry)
    /\ \A i \in 1..Len(registry) : registry[i].id # id => registry'[i] = registry[i]

\* C25: complete_job(id, path) on an existing job sets status COMPLETED,
\* progress 100 and result_key = path; fail_job(id, msg) on an existing job sets
\* status FAILED and error_message = msg and leaves progress and result_key
\* unchanged; neither changes any other job
C25_CompleteAndFail ==
    [][\A i \in 1..Len(registry) :
          /\ (call'.op = "complete_job" /\ call'.id = registry[i].id) =>
                /\ registry'[i].id = registry[i].id
                /\ registry'[i].status = COMPLETED
                /\ registry'[i].progress = 100
                /\ registry'[i].result_key = call'.text
                /\ OthersKept(call'.id)
          /\ (call'.op = "fail_job" /\ call'.id = registry[i].id) =>
                /\ registry'[i].id = registry[i].id
                /\ registry'[i].status = FAILED
                /\ registry'[i].error_message = call'.text
                /\ registry'[i].progress = registry[i].progress
                /\ registry'[i].result_key = registry[i].result_key
                /\ OthersKept(call'.id)]_vars

\* a job at progress 50 was failed while another job of the registry was completed
C25_Witness ==
    /\ call.op = "fail_job"
    /\ \E i, k \in 1..Len(registry) :
          /\ registry[i].id = call.id /\ registry[i].status = FAILED
          /\ registry[i].error_message \in ErrorTexts /\ registry[i].progress = 50
          /\ k # i /\ registry[k].status = COMPLETED /\ registry[k].result_key \in ResultPaths

\* C26: update_progress(id, percent, stage, status?) applied to a job whose
\* status is COMPLETED or FAILED leaves that job's progress, current stage and
\* status unchanged
C26_TerminalUpdateDropped ==
    [][\A i \in 1..Len(registry) :
          (/\ call'.op = "update_progress" /\ call'.id = registry[i].id
           /\ registry[i].status \in {COMPLETED, FAILED}) =>
             /\ registry'[i].progress = registry[i].progress
             /\ registry'[i].current_stage = registry[i].current_stage
             /\ registry'[i].status = registry[i].status]_vars

\* the workers between the increment_processing and the decrement_processing of
\* their _process_job
Counted == {j \in JobIds : worker[j].pc \notin {"none", "queued", "done"}}

\* C27: every pipeline run increments the processing count once before its
\* first stage and decrements it exactly once when it exits, on success and on
\* every failure; the count always equals the number of workers between their
\* increment and decrement, is never negative, and is 0 when no worker is running
C27_CountMatchesWorkers ==
    /\ processing_count = Cardinality(Counted)
    /\ processing_count >= 0
    /\ (Counted = {} => processing_count = 0)

\* one run has failed and left, another is still inside its stages
C27_Witness ==
    \E j, k \in DOMAIN jobs :
        /\ worker[j].pc = "done" /\ jobs[j].status = FAILED
        /\ worker[k].pc = "merging"
        /\ processing_count = 1

\* C28: each pipeline run uses a temp directory that no other run uses, and
\* when the run has exited (completed, failed at any stage, or its job deleted
\* meanwhile) that temp directory no longer exists
C28_TempDirOwnedAndRemoved ==
    /\ \A j, k \in JobIds : (j # k /\ worker[j].tmp # 0) => worker[j].tmp # worker[k].tmp
    /\ \A j \in JobIds : worker[j].pc \in {"failing", "exit", "done"} => worker[j].tmp = 0

\* a run whose job was deleted meanwhile has exited and holds no directory,
\* while another run is inside its stages with a directory of its own
C28_Witness ==
    \E j, k \in JobIds :
        /\ worker[j].pc = "done" /\ j \notin DOMAIN jobs /\ j \in deleted
        /\ worker[k].pc = "separate" /\ worker[k].tmp # 0

\* the stage a worker position belongs to: 1 acquire, 2 extract, 3 separate,
\* 4 copy, 5 re-mux, and 0 outside the stages (not started, unwinding, gone)
StageNo(pc) ==
    CASE pc \in {"begin", "dl_info", "dl_ytdlp", "ytdlp_run", "dl_cobalt", "cobalt_api",
                 "cobalt_run", "info2", "up_check"} -> 1
      [] pc = "extracting" -> 2
      [] pc = "separate" -> 3
      [] pc \in {"copy_original", "merge_begin"} -> 4
      [] pc \in {"merging", "complete"} -> 5
      [] OTHER -> 0

\* C29: if a non-terminal job is deleted while its worker is running, the worker
\* finishes only the stage it is in and exits: it starts no later stage
C29_WorkerStopsAfterDelete ==
    [][\A j \in JobIds :
          (j \in deleted /\ StageNo(worker[j].pc) > 0) =>
             StageNo(worker'[j].pc) \in {0, StageNo(worker[j].pc)}]_vars

\* C30: once the output file of a mix key exists for a COMPLETED job, every
\* POST /jobs/{id}/mix with the settings of that key returns status completed
\* with cached=true and progress 100, starts no worker and leaves the in-flight
\* map unchanged
C30_CachedMix ==
    [][(/\ mix_reply'.n = mix_reply.n + 1
        /\ mix_reply'.job \in DOMAIN jobs
        /\ jobs[mix_reply'.job].status = COMPLETED
        /\ mix_file(get_cache_key(mix_reply'.job, mix_reply'.settings)) \in results[mix_reply'.job]) =>
          /\ mix_reply'.mix_id = get_cache_key(mix_reply'.job, mix_reply'.settings)
          /\ mix_reply'.status = "completed"
          /\ mix_reply'.cached
          /\ mix_reply'.progress = 100
          /\ mix_threads' = mix_threads
          /\ mix_tasks' = mix_tasks]_vars

\* a request was answered from the file a finished worker of its key had written
C30_Witness ==
    /\ mix_reply.cached /\ mix_reply.status = "completed" /\ mix_reply.n >= 2
    /\ task_key(mix_reply.job, mix_reply.mix_id) \in DOMAIN mix_tasks
    /\ mix_tasks[task_key(mix_reply.job, mix_reply.mix_id)].status = "completed"
    /\ mix_threads[task_key(mix_reply.job, mix_reply.mix_id)].started = 1

\* C31: under any interleaving of concurrent check_rate_limit calls for the
\* same client IP (each a read of the counter followed by a write), at most
\* rate_limit_requests calls are allowed within one window
C31_AtMostLimitAllowed == race.allowed <= rate_limit_requests

\* C32: after resolve_conflict has materialized a job for a conflict_id (by
\* overwrite or by rename) the pending entry for that conflict_id is gone, so
\* any further resolve with the same conflict_id returns an error and creates
\* nothing: each conflict materializes at most one job
C32_ResolvedOnce ==
    [][/\ (reply' # reply /\ reply'.op = "resolve") =>
             \* a materialized job takes its pending entry away
          /\ reply'.job # {} =>
                /\ reply'.cid \in DOMAIN pending_imports
                /\ reply'.cid \notin DOMAIN pending_imports'
                /\ Cardinality(DOMAIN jobs' \ DOMAIN jobs) = 1
             \* without a pending entry a resolve is an error and creates nothing
          /\ reply'.cid \notin DOMAIN pending_imports =>
                /\ reply'.code = 400 \/ reply'.errors
                /\ reply'.job = {}
                /\ jobs' = jobs /\ results' = results /\ nextId' = nextId
       \* a conflict_id that is gone never becomes pending again
       /\ \A c \in ConflictIds :
             (c < nextConflict /\ c \notin DOMAIN pending_imports) => c \notin DOMAIN pending_imports']_vars

\* a conflict that was resolved by an overwrite was resolved again, in vain
C32_Witness ==
    /\ reply.op = "resolve" /\ reply.action = "overwrite" /\ reply.code = 200 /\ reply.errors
    /\ reply.cid < nextConflict /\ reply.cid \notin DOMAIN pending_imports
    /\ \E k \in DOMAIN jobs : k > 1 /\ jobs[k].source_title \in BundleTitles


\* ---------------------------------------------------------------------
\* Imports next to a running pipeline job
\* ---------------------------------------------------------------------

NextImportBusy ==
    \/ CreateJob(SoloJobs)
    \/ UploadAdmit(SoloJobs)
    \/ UploadCreate
    \/ \E j \in JobIds : Pipeline(j)
    \/ \E song \in Songs : ImportSong(song, MaxJobs, 0)
    \/ \E j \in JobIds : DeleteJobFiles(j)
    \/ \E j \in JobIds : DeleteJobEntry(j)

SpecImportBusy == Init /\ [][NextImportBusy]_vars

\* a job that process_job_async was never called for came from an import
Imported(k) == k \in DOMAIN jobs /\ worker[k].pc = "none"

\* C33: an imported job enters the Registry as COMPLETED with progress
\* 100 and is COMPLETED with progress 100 in every later state, and the
\* import step changes neither the processing count nor can_accept_job()
C33_ImportedTerminal ==
    /\ [](\A k \in JobIds : Imported(k) => jobs[k].status = COMPLETED /\ jobs[k].progress = 100)
    /\ [][ImportStep =>
            /\ \A k \in DOMAIN jobs' \ DOMAIN jobs :
                  jobs'[k].status = COMPLETED /\ jobs'[k].progress = 100
            /\ processing_count' = processing_count
            /\ can_accept_job' = can_accept_job]_vars

C33_Witness ==
    /\ reply.op = "import" /\ reply.imported # {}
    /\ \A k \in reply.imported : Imported(k)
    /\ processing_count > 0
    /\ \E j \in DOMAIN jobs : jobs[j].status \notin {COMPLETED, FAILED}


\* ---------------------------------------------------------------------
\* External tools that do not return
\* ---------------------------------------------------------------------

\* the stages in which the worker thread sits inside VideoMerger's
\* subprocess.run(cmd, capture_output=True, text=True): extract_audio and
\* get_video_info (ffprobe) before the separation, merge_audio_video after
ToolStages == {"extracting", "merging"}

\* the tool never exits: subprocess.run is called without timeout=, so no
\* TimeoutExpired is raised and the thread stays inside the call
ToolHangs(j) ==
    /\ worker[j].pc \in ToolStages
    /\ Goto(j, "blocked")
    /\ WorkerOnly

NextJobFair ==
    \/ CreateJob(SoloJobs)
    \/ UploadAdmit(SoloJobs)
    \/ UploadCreate
    \/ \E j \in JobIds : DeleteJobFiles(j)
    \/ \E j \in JobIds : DeleteJobEntry(j)
    \/ \E j \in JobIds : Pipeline(j)
    \/ \E j \in JobIds : ToolHangs(j)

\* a worker step that takes the thread to its next stage (a progress
\* callback leaves it where it is)
Advance(j) == Pipeline(j) /\ worker'[j].pc # worker[j].pc

\* a started thread keeps being scheduled, and a download or a separation
\* of a finite input ends, by returning or by raising: the thread reaches
\* its next stage whenever a step to it stays possible. Nothing obliges a
\* tool to hang or a client to act
SpecJobFair == Init /\ [][NextJobFair]_vars /\ \A j \in JobIds : WF_vars(Advance(j))

\* C34: every admitted job eventually is COMPLETED or FAILED (or is
\* deleted) and its worker eventually has released its processing slot,
\* also when an external tool never returns by itself
C34_EveryJobTerminates ==
    \A j \in JobIds :
        (worker[j].pc = "queued") ~>
            (/\ worker[j].pc = "done"
             /\ j \in DOMAIN jobs => jobs[j].status \in {COMPLETED, FAILED})


\* C35: every job the pipeline has marked COMPLETED (and no DELETE is
\* removing) has all four stem paths recorded in track_paths and the four
\* stem files in its results directory
C35_CompletedHasStems ==
    \A j \in DOMAIN jobs :
        (jobs[j].status = COMPLETED /\ worker[j].pc # "none" /\ deleting # j) =>
            /\ jobs[j].track_paths = {Stems}
            /\ {s \o ".wav" : s \in Stems} \subseteq results[j]


\* ---------------------------------------------------------------------
\* JobManager calls for ids that are not in the registry
\* ---------------------------------------------------------------------

\* the keyword arguments tried: an attribute of Job and a name Job lacks
UpdateKeys == {"result_key", "nosuch"}

\* an update_job that stores a new Job under an id it does not find
JobManager_update_job_upsert(reg, id, key, value) ==
    IF jobs_get(reg, id) = 0 THEN Append(reg, WholeJob(id, 0))
    ELSE [reg EXCEPT ![jobs_get(reg, id)] =
             IF key \in DOMAIN @ THEN [@ EXCEPT ![key] = value] ELSE @]

\* JobManager.update_job(job_id, **kwargs): setattr for the names Job has
JobManager_update_job(reg, id, key, value) ==
    IF jobs_get(reg, id) = 0 THEN reg
    ELSE [reg EXCEPT ![jobs_get(reg, id)] =
             IF key \in DOMAIN @ THEN [@ EXCEPT ![key] = value] ELSE @]

\* JobManager.delete_job: del self._jobs[job_id]
JobManager_delete_job(reg, id) == SelectSeq(reg, LAMBDA job : job.id # id)

RegistryFrame ==
    UNCHANGED <<jobs, processing_count, worker, results, uploads, uploading,
                deleting, deleted, importvars, mixvars, httpvars, ratevars, bundlevars, proxyvars>>

\* create_job with a fresh uuid4 as the id (nextId counts the ids handed
\* out; none of the methods called here reads created_at)
RegistryCreateFresh(limit) ==
    /\ nextId <= limit
    /\ registry' = JobManager_create_job(registry, WholeJob(nextId, 0))
    /\ nextId' = nextId + 1
    /\ call' = [NoCall EXCEPT !.op = "create_job", !.id = nextId]
    /\ RegistryFrame

RegistryUpdateJob(id, key, value) ==
    /\ registry' = JobManager_update_job(registry, id, key, value)
    /\ call' = [NoCall EXCEPT !.op = "update_job", !.id = id, !.stage = key, !.text = value]
    /\ RegistryBase

RegistryDelete(id) ==
    /\ registry' = JobManager_delete_job(registry, id)
    /\ call' = [NoCall EXCEPT !.op = "delete_job", !.id = id]
    /\ RegistryBase

\* the ids a caller may hold: the ones handed out and one never created
CallerIds == 1..(MaxRegistry + 1)

NextRegistryGone ==
    \/ RegistryCreateFresh(MaxRegistry)
    \/ \E id \in CallerIds, key \in UpdateKeys, value \in ResultPaths : RegistryUpdateJob(id, key, value)
    \/ \E id \in CallerIds, progress \in ProgressArgs, stage \in StageTexts, status \in StatusArgs :
          RegistryUpdateProgress(id, progress, stage, status)
    \/ \E id \in CallerIds, result_path \in ResultPaths : RegistryComplete(id, result_path)
    \/ \E id \in CallerIds, error_message \in ErrorTexts : RegistryFail(id, error_message)
    \/ \E id \in CallerIds : RegistryDelete(id)

SpecRegistryGone == Init /\ [][NextRegistryGone]_vars

UpdateCalls == {"update_job", "update_progress", "complete_job", "fail_job"}

\* C36: update_job, update_progress, complete_job and fail_job with an id
\* that is not in the registry leave the registry as it is, and an id
\* that was handed out and deleted is in the registry in no later state
C36_MissingIdUntouched ==
    [][/\ (call' # call /\ call'.op \in UpdateCalls /\ jobs_get(registry, call'.id) = 0)
             => registry' = registry
       /\ \A id \in CallerIds :
             (id < nextId /\ jobs_get(registry, id) = 0) => jobs_get(registry', id) = 0]_vars

C36_Witness ==
    /\ call.op \in UpdateCalls
    /\ call.id < nextId
    /\ jobs_get(registry, call.id) = 0
    /\ registry # << >>


\* C37: a resolve with action overwrite that answers with an error for a
\* pending conflict leaves the registry (the colliding job included) and
\* the pending conflicts as they were
C37_FailedOverwriteChangesNothing ==
    [][(/\ reply' # reply
        /\ reply'.op = "resolve" /\ reply'.action = "overwrite" /\ reply'.errors
        /\ reply'.cid \in DOMAIN pending_imports)
          => /\ jobs' = jobs
             /\ pending_imports' = pending_imports]_vars


\* ---------------------------------------------------------------------
\* Overwrite resolutions for one title
\* ---------------------------------------------------------------------

\* the bundles titled T
TitledSongs == {song \in Songs : song.title \in Titles}

\* the registry holds one job titled T, imported from a full bundle
InitTitled ==
    LET song == CHOOSE sg \in TitledSongs : sg.stems = Stems
    IN /\ jobs = add_imported_job(<< >>, 1, imported_job(song, song.title))
       /\ results = [j \in StoreIds |-> IF j = 1 THEN song_files(song) ELSE {}]
       /\ nextId = 2
       /\ processing_count = 0
       /\ worker = [j \in StoreIds |-> NoWorker]
       /\ uploads = [j \in StoreIds |-> FALSE]
       /\ uploading = 0
       /\ deleting = 0
       /\ deleted = {}
       /\ pending_imports = << >>
       /\ nextConflict = 1
       /\ reply = NoReply
       /\ mix_tasks = << >>
       /\ mix_threads = [k \in TaskKeys |-> NoThreads]
       /\ mix_reply = NoMixReply
       /\ mix_status = NoMixStatus
       /\ stream = NoStream
       /\ redis = {}
       /\ now = 0
       /\ rl = NoCalls
       /\ race = NoRace
       /\ xfer = NoBundle
       /\ upload = NoUpload
       /\ registry = << >>
       /\ call = NoCall
       /\ download_tasks = << >>
       /\ dl_thread = [t \in TaskIds |-> "none"]
       /\ dl_reply = NoTasks

NextOverwrite ==
    \/ \E song \in TitledSongs : ImportSong(song, MaxTitled, MaxPending)
    \/ \E cid \in 1..MaxPending : ResolveConflict(cid, "overwrite", NoTitle, MaxTitled)

SpecOverwrite == InitTitled /\ [][NextOverwrite]_vars

\* C38: from a registry with exactly one job titled T, imports of bundles
\* titled T and overwrite resolutions of their conflicts keep exactly one
\* job titled T in the registry
C38_OneJobPerTitle ==
    \A t \in Titles : Cardinality({k \in DOMAIN jobs : jobs[k].source_title = t}) = 1


\* C39: when materializing an imported song fails (an import or a resolve
\* that used up an id answers with an error and no job), the registry has
\* no entry under that id and the job directory of that id is empty
C39_FailedImportLeavesNothing ==
    [][(/\ nextId' = nextId + 1
        /\ reply'.op \in {"import", "resolve"} /\ reply'.errors
        /\ reply'.imported = {} /\ reply'.job = {})
          => /\ nextId \notin DOMAIN jobs'
             /\ DOMAIN jobs' \subseteq DOMAIN jobs
             /\ results'[nextId] = {}]_vars

C39_Witness ==
    /\ reply.op = "import" /\ reply.errors /\ reply.error_count = 1
    /\ nextId > 1
    /\ (nextId - 1) \notin DOMAIN jobs
    /\ results[nextId - 1] = {}


\* ---------------------------------------------------------------------
\* The YouTube download proxy (api/v1/youtube.py)
\* ---------------------------------------------------------------------

ProxyBase ==
    UNCHANGED <<jobs, processing_count, nextId, worker, results, uploads, uploading,
                deleting, deleted, importvars, mixvars, httpvars, ratevars, bundlevars, regvars>>

\* a result handler that leaves the task in download_tasks
pop_task_kept(tasks, id) == tasks

\* del download_tasks[task_id] / download_tasks.pop(task_id, None)
pop_task(tasks, id) == [t \in DOMAIN tasks \ {id} |-> tasks[t]]

\* task[key] = value in the thread, which holds the dict it read at its
\* start: once the task is out of download_tasks the write reaches nobody
task_set(tasks, id, key, value) ==
    IF id \in DOMAIN tasks THEN [tasks EXCEPT ![id][key] = value] ELSE tasks

\* how often the payload of a task was handed out
served_count(id) == IF id \in DOMAIN dl_reply.served THEN dl_reply.served[id] ELSE 0

\* POST /youtube/download/start: _cleanup_old_tasks drops the tasks older
\* than TASK_TIMEOUT (any of them may be, the clock is not modelled), 400
\* INVALID_URL, else a fresh uuid4 task_id, the pending task and its thread
start_download(valid_url, expired) ==
    /\ expired \subseteq DOMAIN download_tasks
    /\ LET kept == [t \in DOMAIN download_tasks \ expired |-> download_tasks[t]]
       IN IF ~valid_url
          THEN /\ download_tasks' = kept
               /\ dl_reply' = [dl_reply EXCEPT !.op = "start", !.task = 0, !.code = 400,
                                               !.status = "none", !.payload = FALSE]
               /\ UNCHANGED dl_thread
          ELSE /\ \E t \in TaskIds : dl_thread[t] = "none"
               /\ LET id == CHOOSE t \in TaskIds :
                               dl_thread[t] = "none" /\ \A u \in TaskIds : dl_thread[u] = "none" => t <= u
                  IN /\ download_tasks' =
                            [t \in DOMAIN kept \cup {id} |->
                                IF t = id THEN [status |-> "pending", progress |-> 0, result |-> FALSE,
                                                error |-> FALSE]
                                ELSE kept[t]]
                     /\ dl_thread' = [dl_thread EXCEPT ![id] = "info"]
                     /\ dl_reply' = [dl_reply EXCEPT !.op = "start", !.task = id, !.code = 200,
                                                     !.status = "none", !.payload = FALSE]
    /\ ProxyBase

\* _download_task: get_video_info returned and the duration is within
\* MAX_VIDEO_DURATION
ProxyInfo(id) ==
    /\ dl_thread[id] = "info"
    /\ dl_thread' = [dl_thread EXCEPT ![id] = "downloading"]
    /\ UNCHANGED <<download_tasks, dl_reply>>
    /\ ProxyBase

\* progress_callback during download_separate
ProxyProgress(id, progress) ==
    /\ dl_thread[id] = "downloading"
    /\ download_tasks' = task_set(download_tasks, id, "progress", progress)
    /\ UNCHANGED <<dl_thread, dl_reply>>
    /\ ProxyBase

\* download_separate returned, the zip is built: task['result'] = ...
ProxyResult(id) ==
    /\ dl_thread[id] = "downloading"
    /\ download_tasks' = task_set(task_set(download_tasks, id, "progress", 95), id, "result", TRUE)
    /\ dl_thread' = [dl_thread EXCEPT ![id] = "packaged"]
    /\ UNCHANGED dl_reply
    /\ ProxyBase

\* task['status'] = 'completed'; task['progress'] = 100
ProxyCompleted(id) ==
    /\ dl_thread[id] = "packaged"
    /\ download_tasks' = task_set(task_set(download_tasks, id, "status", "completed"), id, "progress", 100)
    /\ dl_thread' = [dl_thread EXCEPT ![id] = "done"]
    /\ UNCHANGED dl_reply
    /\ ProxyBase

\* the duration is over the limit, or a call raised: task['status'] = 'error'
ProxyError(id) ==
    /\ dl_thread[id] \in {"info", "downloading"}
    /\ download_tasks' = task_set(download_tasks, id, "status", "error")
    /\ dl_thread' = [dl_thread EXCEPT ![id] = "failed"]
    /\ UNCHANGED dl_reply
    /\ ProxyBase

\* ... and then task['error'] = message
ProxyErrorText(id) ==
    /\ dl_thread[id] = "failed"
    /\ download_tasks' = task_set(download_tasks, id, "error", TRUE)
    /\ dl_thread' = [dl_thread EXCEPT ![id] = "done"]
    /\ UNCHANGED dl_reply
    /\ ProxyBase

\* GET /youtube/download/progress/{task_id}
get_download_progress(id) ==
    /\ dl_reply' = IF id \notin DOMAIN download_tasks
                   THEN [dl_reply EXCEPT !.op = "progress", !.task = id, !.code = 404,
                                         !.status = "none", !.payload = FALSE]
                   ELSE [dl_reply EXCEPT !.op = "progress", !.task = id, !.code = 200,
                                         !.status = download_tasks[id].status, !.payload = FALSE]
    /\ UNCHANGED <<download_tasks, dl_thread>>
    /\ ProxyBase

\* GET /youtube/download/result/{task_id}
get_download_result(id) ==
    /\ IF id \notin DOMAIN download_tasks
       THEN /\ dl_reply' = [dl_reply EXCEPT !.op = "result", !.task = id, !.code = 404,
                                            !.status = "none", !.payload = FALSE]
            /\ UNCHANGED download_tasks
       ELSE IF download_tasks[id].status = "error"
       THEN /\ download_tasks' = pop_task(download_tasks, id)
            /\ dl_reply' = [dl_reply EXCEPT !.op = "result", !.task = id, !.code = 500,
                                            !.status = "error", !.payload = FALSE]
       ELSE IF download_tasks[id].status # "completed"
       THEN /\ dl_reply' = [dl_reply EXCEPT !.op = "result", !.task = id, !.code = 202,
                                            !.status = download_tasks[id].status, !.payload = FALSE]
            /\ UNCHANGED download_tasks
       ELSE /\ download_tasks' = pop_task(download_tasks, id)
            /\ dl_reply' = [op |-> "result", task |-> id, code |-> 200, status |-> "completed",
                            payload |-> download_tasks[id].result,
                            served |-> [t \in DOMAIN dl_reply.served \cup {id} |->
                                            IF t = id THEN served_count(id) + 1
                                            ELSE dl_reply.served[t]]]
    /\ UNCHANGED dl_thread
    /\ ProxyBase

ProgressValues == {50}

NextProxy ==
    \/ \E valid_url \in BOOLEAN, expired \in SUBSET TaskIds : start_download(valid_url, expired)
    \/ \E id \in TaskIds : ProxyInfo(id)
    \/ \E id \in TaskIds, progress \in ProgressValues : ProxyProgress(id, progress)
    \/ \E id \in TaskIds : ProxyResult(id)
    \/ \E id \in TaskIds : ProxyCompleted(id)
    \/ \E id \in TaskIds : ProxyError(id)
    \/ \E id \in TaskIds : ProxyErrorText(id)
    \/ \E id \in TaskIds : get_download_progress(id)
    \/ \E id \in TaskIds : get_download_result(id)

SpecProxy == Init /\ [][NextProxy]_vars


\* C40: the payload of a task is handed out at most once. GET result
\* answers 200 with the payload only for a completed task and 202 for a
\* task that is neither completed nor failed; it removes the task when it
\* hands out the payload or reports the error (500); a progress or result
\* request for a task that is not in download_tasks answers 404, and a
\* task that was removed is never in download_tasks again
C40_ResultFetchedOnce ==
    /\ [](\A id \in DOMAIN dl_reply.served : dl_reply.served[id] <= 1)
    /\ [][/\ (dl_reply' # dl_reply /\ dl_reply'.op \in {"progress", "result"}) =>
               LET id == dl_reply'.task
                   known == id \in DOMAIN download_tasks
               IN /\ (dl_reply'.op = "result" /\ dl_reply'.code = 200) =>
                         /\ known
                         /\ download_tasks[id].status = "completed"
                         /\ dl_reply'.payload
                         /\ id \notin DOMAIN download_tasks'
                  /\ (dl_reply'.op = "result" /\ known /\ download_tasks[id].status \notin {"completed", "error"}) =>
                         /\ dl_reply'.code = 202
                         /\ download_tasks' = download_tasks
                  /\ (dl_reply'.op = "result" /\ known /\ download_tasks[id].status = "error") =>
                         /\ dl_reply'.code = 500
                         /\ id \notin DOMAIN download_tasks'
                  /\ ~known => dl_reply'.code = 404
          /\ \A id \in TaskIds :
                (dl_thread[id] # "none" /\ id \notin DOMAIN download_tasks)
                    => id \notin DOMAIN download_tasks']_vars

\* a request for a task whose payload was handed out is answered 404
C40_Witness ==
    /\ dl_reply.op \in {"progress", "result"}
    /\ dl_reply.code = 404
    /\ served_count(dl_reply.task) = 1
    /\ dl_reply.task \notin DOMAIN download_tasks

====
